---- MODULE Spec2Model ----
(* A model of the DAM client SDK (src/src/DAMClient.js): the DAMClient class  *)
(* (constructor, request, endpoint methods, getFileUrl) and the React hooks   *)
(* built on it (useFileOperations, useFileUpload).                            *)
EXTENDS Integers, Sequences, FiniteSets, Bags, TLC

VARIABLES ctor, client, call, urlCall, fo, up, fl, fd, wire, log, fi, tc, pv, ds, fr

vars == <<ctor, client, call, urlCall, fo, up, fl, fd, wire, log, fi, tc, pv, ds, fr>>

(* ------------------------------------------------------------------------ *)
(* JavaScript values. Every value is a tagged record; an object is an       *)
(* insertion-ordered sequence of <<key, value>> pairs.                       *)
(* ------------------------------------------------------------------------ *)
Undef == [t |-> "undefined"]
Null == [t |-> "null"]
Str(s) == [t |-> "string", s |-> s]
Num(n) == [t |-> "number", n |-> n]
Bool(b) == [t |-> "boolean", b |-> b]
Obj(pairs) == [t |-> "object", f |-> pairs]
FormDataOf(entries) == [t |-> "formdata", e |-> entries]

\* JS truthiness (ToBoolean)
Truthy(v) ==
  CASE v.t = "undefined" -> FALSE
    [] v.t = "null" -> FALSE
    [] v.t = "string" -> v.s # ""
    [] v.t = "number" -> v.n # 0
    [] v.t = "boolean" -> v.b
    [] OTHER -> TRUE

\* a || b
OrElse(a, b) == IF Truthy(a) THEN a ELSE b

\* String(v), as used by template literals, new Error(v) and URLSearchParams
ToStr(v) ==
  CASE v.t = "undefined" -> "undefined"
    [] v.t = "null" -> "null"
    [] v.t = "string" -> v.s
    [] v.t = "number" -> ToString(v.n)
    [] v.t = "boolean" -> (IF v.b THEN "true" ELSE "false")
    [] v.t = "formdata" -> "[object FormData]"
    [] OTHER -> "[object Object]"

HasKey(pairs, k) == \E i \in 1..Len(pairs) : pairs[i][1] = k

\* o[k] on a pair list: undefined when the key is absent
Lookup(pairs, k) ==
  IF HasKey(pairs, k)
    THEN pairs[CHOOSE i \in 1..Len(pairs) : pairs[i][1] = k][2]
    ELSE Undef

\* Whether reading a property of v throws a TypeError (v is null or undefined)
PropThrows(v) == v.t \in {"undefined", "null"}

\* v.k for a value that is not null/undefined
Prop(v, k) == IF v.t = "object" THEN Lookup(v.f, k) ELSE Undef

\* o[k] = v on a pair list: an existing key keeps its position
PutPair(pairs, k, v) ==
  IF HasKey(pairs, k)
    THEN [i \in 1..Len(pairs) |-> IF pairs[i][1] = k THEN <<k, v>> ELSE pairs[i]]
    ELSE Append(pairs, <<k, v>>)

\* { ...pairs, ...src } : object spread; spreading undefined/null adds nothing
RECURSIVE SpreadPairs(_, _)
SpreadPairs(pairs, src) ==
  IF src = <<>> THEN pairs
  ELSE SpreadPairs(PutPair(pairs, src[1][1], src[1][2]), Tail(src))

Spread(pairs, v) == IF v.t = "object" THEN SpreadPairs(pairs, v.f) ELSE pairs

\* An object literal in which an undefined field is simply left out
RECURSIVE DropUndef(_)
DropUndef(pairs) ==
  IF pairs = <<>> THEN <<>>
  ELSE IF pairs[1][2] = Undef THEN DropUndef(Tail(pairs))
  ELSE <<pairs[1]>> \o DropUndef(Tail(pairs))

MkObj(pairs) == Obj(DropUndef(pairs))

IsFormData(v) == v.t = "formdata"

(* ------------------------------------------------------------------------ *)
(* JSON. JSON.parse and JSON.stringify over the texts the model uses.        *)
(* ------------------------------------------------------------------------ *)
FileJson == Obj(<< <<"data", Obj(<< <<"id", Str("f1")>> >>)>> >>)
NotFoundJson == Obj(<< <<"message", Str("not found")>> >>)
DeniedJson == Obj(<< <<"error", Str("denied")>> >>)
EmptyMessageJson == Obj(<< <<"message", Str("")>>, <<"error", Str("denied")>> >>)
BothJson == Obj(<< <<"message", Str("not found")>>, <<"error", Str("denied")>> >>)
NameJson == Obj(<< <<"name", Str("n")>> >>)

\* The body of a file listing: the files of one folder ("all": of every folder)
ListingJson(tag) ==
  Obj(<< <<"data", Obj(<< <<"0", Str("file-of-" \o tag)>> >>)>>,
         <<"pagination", Obj(<< <<"of", Str(tag)>> >>)>> >>)

ListingText(tag) ==
  "{\"data\":[\"file-of-" \o tag \o "\"],\"pagination\":{\"of\":\"" \o tag \o "\"}}"

ListingTexts == { ListingText(tag) : tag \in {"all", "a", "b"} }

JsonTable ==
  { <<"{\"data\":{\"id\":\"f1\"}}", FileJson>>,
    <<"{\"message\":\"not found\"}", NotFoundJson>>,
    <<"{\"error\":\"denied\"}", DeniedJson>>,
    <<"{\"message\":\"\",\"error\":\"denied\"}", EmptyMessageJson>>,
    <<"{\"message\":\"not found\",\"error\":\"denied\"}", BothJson>>,
    <<"{\"name\":\"n\"}", NameJson>>,
    <<ListingText("all"), ListingJson("all")>>,
    <<ListingText("a"), ListingJson("a")>>,
    <<ListingText("b"), ListingJson("b")>>,
    <<"{}", Obj(<<>>)>>,
    <<"null", Null>>,
    <<"\"\"", Str("")>>,
    <<"\"x\"", Str("x")>>,
    <<"0", Num(0)>> }

\* Texts that are not JSON: an empty body and an HTML error page
NonJsonTexts == {"", "<html>Bad Gateway</html>"}

JsonValid(text) == \E p \in JsonTable : p[1] = text

\* JSON.parse(text), for a valid text
JsonParse(text) == (CHOOSE p \in JsonTable : p[1] = text)[2]

\* JSON.stringify(v)
JsonStringify(v) == (CHOOSE p \in JsonTable : p[2] = v)[1]

(* ------------------------------------------------------------------------ *)
(* DAMClient: constructor                                                    *)
(* ------------------------------------------------------------------------ *)
NoClient == [t |-> "none"]

\* Candidate prefixes p with p + "/" = s, for the URLs the model uses
UrlPrefixes == {"", "h", "h/"}

\* s.replace(/\/$/, ''): drop one trailing slash when there is one
\* replace(/\/+$/, ''): every trailing slash removed
StripEveryTrailingSlash(s) ==
  IF s \in {"h/", "h//"} THEN "h" ELSE s

StripTrailingSlash(s) ==
  IF \E p \in UrlPrefixes : p \o "/" = s
    THEN CHOOSE p \in UrlPrefixes : p \o "/" = s
    ELSE s

\* The guard with the keySecret test left out
ConfigRejectedNoSecret(config) ==
  \/ ~Truthy(config)
  \/ ~Truthy(Prop(config, "apiUrl"))
  \/ ~Truthy(Prop(config, "keyId"))

\* The guard of the constructor: !config || !config.apiUrl || ...
ConfigRejected(config) ==
  \/ ~Truthy(config)
  \/ ~Truthy(Prop(config, "apiUrl"))
  \/ ~Truthy(Prop(config, "keyId"))
  \/ ~Truthy(Prop(config, "keySecret"))

ConfigErrorMessage == "DAMClient requires config with apiUrl, keyId, and keySecret"

\* The fields the constructor assigns
NewClient(config) ==
  LET apiUrl == StripTrailingSlash(Prop(config, "apiUrl").s)
  IN [apiUrl |-> Str(apiUrl),
      keyId |-> Prop(config, "keyId"),
      keySecret |-> Prop(config, "keySecret"),
      baseUrl |-> Str(apiUrl \o "/api")]

(* ------------------------------------------------------------------------ *)
(* DAMClient.request                                                         *)
(* ------------------------------------------------------------------------ *)
Return(v) == [kind |-> "return", value |-> v, message |-> ""]
Throw(m) == [kind |-> "throw", value |-> Undef, message |-> m]
NoOutcome == [kind |-> "none", value |-> Undef, message |-> ""]

\* The local `headers` object: auth defaults, the caller's headers spread over
\* them, then Content-Type forced unless the body is FormData
RequestHeaders(c, options) ==
  LET base == << <<"X-API-Key-ID", c.keyId>>, <<"X-API-Key-Secret", c.keySecret>> >>
      merged == Spread(base, Prop(options, "headers"))
  IN IF ~IsFormData(Prop(options, "body"))
       THEN PutPair(merged, "Content-Type", Str("application/json"))
       ELSE merged

\* fetchOptions: { method, headers, ...options }, then the body replaced by its
\* JSON text when it is truthy and not FormData
FetchOptions(c, options) ==
  LET init == SpreadPairs(
                << <<"method", OrElse(Prop(options, "method"), Str("GET"))>>,
                   <<"headers", Obj(RequestHeaders(c, options))>> >>,
                options.f)
      body == Prop(options, "body")
  IN IF Truthy(body) /\ ~IsFormData(body)
       THEN PutPair(init, "body", Str(JsonStringify(body)))
       ELSE init

RequestUrl(c, endpoint) == c.baseUrl.s \o endpoint

(* What fetch(url, init) puts on the wire for an init object *)
SentMethod(init) ==
  LET m == Lookup(init, "method") IN IF m = Undef THEN "GET" ELSE ToStr(m)

SentHeaders(init) ==
  LET h == Lookup(init, "headers") IN IF h.t = "object" THEN h.f ELSE <<>>

SentBody(init) ==
  LET b == Lookup(init, "body")
  IN CASE b.t \in {"undefined", "null"} -> [kind |-> "none", text |-> "", form |-> <<>>]
       [] IsFormData(b) -> [kind |-> "multipart", text |-> "", form |-> b.e]
       [] OTHER -> [kind |-> "text", text |-> ToStr(b), form |-> <<>>]

\* fetch rejects, without sending, a GET request that carries a body
FetchRefuses(init) == SentMethod(init) = "GET" /\ SentBody(init).kind # "none"

FetchRefusedMessage == "Request with GET/HEAD method cannot have body"
NetworkErrorMessage == "Failed to fetch"

(* Responses *)
StatusText(status) ==
  CASE status = 200 -> "OK"
    [] status = 204 -> "No Content"
    [] status = 404 -> "Not Found"
    [] status = 500 -> "Internal Server Error"

HttpResponse(status, text) ==
  [kind |-> "http", status |-> status, statusText |-> StatusText(status), text |-> text]

NetworkFailure == [kind |-> "neterr", status |-> 0, statusText |-> "", text |-> ""]
NoResponse == [kind |-> "none", status |-> 0, statusText |-> "", text |-> ""]

\* response.ok
ResponseOk(r) == r.status >= 200 /\ r.status <= 299

\* The message of the SyntaxError that response.json() / JSON.parse rejects with
ParseErrorMessage(text) ==
  IF text = "" THEN "Unexpected end of JSON input"
  ELSE "Unexpected token < in JSON at position 0"

HttpStatusMessage(r) == "HTTP " \o ToString(r.status) \o ": " \o r.statusText

\* The message with `error` preferred over `message`
ErrorMessagePrefersError(r) ==
  IF ~JsonValid(r.text) THEN HttpStatusMessage(r)
  ELSE LET errorData == JsonParse(r.text)
       IN IF PropThrows(errorData) THEN HttpStatusMessage(r)
          ELSE ToStr(OrElse(Prop(errorData, "error"),
                       OrElse(Prop(errorData, "message"), Str("Request failed"))))

\* The message with the catch branch left empty: the default survives
ErrorMessageKeepsDefault(r) ==
  IF ~JsonValid(r.text) THEN "Request failed"
  ELSE LET errorData == JsonParse(r.text)
       IN IF PropThrows(errorData) THEN "Request failed"
          ELSE ToStr(OrElse(Prop(errorData, "message"),
                       OrElse(Prop(errorData, "error"), Str("Request failed"))))

\* The message of the error thrown for a response that is not ok
ErrorMessage(r) ==
  IF ~JsonValid(r.text) THEN HttpStatusMessage(r)
  ELSE LET errorData == JsonParse(r.text)
       IN IF PropThrows(errorData) THEN HttpStatusMessage(r)
          ELSE ToStr(OrElse(Prop(errorData, "message"),
                       OrElse(Prop(errorData, "error"), Str("Request failed"))))

\* request() parsing the body before it looks at response.ok, and never looking
RequestOutcomeIgnoresOk(r) ==
  IF r.kind = "neterr" THEN Throw(NetworkErrorMessage)
  ELSE IF JsonValid(r.text) THEN Return(JsonParse(r.text))
  ELSE Throw(ParseErrorMessage(r.text))

\* What request() does with the settled fetch: return the parsed body, or throw
RequestOutcome(r) ==
  IF r.kind = "neterr" THEN Throw(NetworkErrorMessage)
  ELSE IF ~ResponseOk(r) THEN Throw(ErrorMessage(r))
  ELSE IF JsonValid(r.text) THEN Return(JsonParse(r.text))
  ELSE Throw(ParseErrorMessage(r.text))

(* ------------------------------------------------------------------------ *)
(* DAMClient.getFileUrl                                                      *)
(* ------------------------------------------------------------------------ *)
\* The application/x-www-form-urlencoded serializer of URLSearchParams, on the
\* strings the model uses: a space becomes +, a slash is percent-encoded
FormEncode(s) ==
  CASE s = "scale down" -> "scale+down"
    [] s = "image/*" -> "image%2F*"
    [] OTHER -> s

\* params.toString(): name=value pairs joined by &
RECURSIVE ParamsToString(_)
ParamsToString(params) ==
  IF params = <<>> THEN ""
  ELSE FormEncode(params[1][1]) \o "=" \o FormEncode(params[1][2])
       \o (IF Len(params) > 1 THEN "&" ELSE "")
       \o ParamsToString(Tail(params))

\* if (o.field) params.append(key, o.field)
AppendIf(params, o, field, key) ==
  IF Truthy(Prop(o, field))
    THEN Append(params, <<key, ToStr(Prop(o, field))>>)
    ELSE params

\* getFileUrl appending the height before the width
TransformParamsHeightFirst(o) ==
  LET p1 == AppendIf(<<>>, o, "height", "h")
      p2 == AppendIf(p1, o, "width", "w")
      p3 == AppendIf(p2, o, "fit", "fit")
      p4 == AppendIf(p3, o, "format", "format")
      p5 == AppendIf(p4, o, "quality", "quality")
      p6 == AppendIf(p5, o, "blur", "blur")
      p7 == IF Truthy(Prop(o, "grayscale"))
              THEN Append(p6, <<"grayscale", "true">>) ELSE p6
  IN AppendIf(p7, o, "rotate", "rotate")

\* getFileUrl appending grayscale whenever the field is present
TransformParamsGrayscalePresent(o) ==
  LET p1 == AppendIf(<<>>, o, "width", "w")
      p2 == AppendIf(p1, o, "height", "h")
      p3 == AppendIf(p2, o, "fit", "fit")
      p4 == AppendIf(p3, o, "format", "format")
      p5 == AppendIf(p4, o, "quality", "quality")
      p6 == AppendIf(p5, o, "blur", "blur")
      p7 == IF Prop(o, "grayscale") # Undef
              THEN Append(p6, <<"grayscale", ToStr(Prop(o, "grayscale"))>>) ELSE p6
  IN AppendIf(p7, o, "rotate", "rotate")

\* The URLSearchParams getFileUrl builds from transformOptions
TransformParams(o) ==
  LET p1 == AppendIf(<<>>, o, "width", "w")
      p2 == AppendIf(p1, o, "height", "h")
      p3 == AppendIf(p2, o, "fit", "fit")
      p4 == AppendIf(p3, o, "format", "format")
      p5 == AppendIf(p4, o, "quality", "quality")
      p6 == AppendIf(p5, o, "blur", "blur")
      p7 == IF Truthy(Prop(o, "grayscale"))
              THEN Append(p6, <<"grayscale", "true">>) ELSE p6
  IN AppendIf(p7, o, "rotate", "rotate")

\* The parameters getFileUrl has appended when it returns: none on its
\* early returns
GetFileUrlParams(fileId, transformOptions) ==
  IF Truthy(fileId) /\ Truthy(transformOptions)
    THEN TransformParams(transformOptions) ELSE <<>>

\* getFileUrl testing fileId === null instead of !fileId
GetFileUrlNullOnly(c, fileId, transformOptions) ==
  IF fileId = Null THEN Null
  ELSE IF ~Truthy(transformOptions)
    THEN Str(c.apiUrl.s \o "/api/transform/" \o ToStr(fileId))
  ELSE LET query == ParamsToString(TransformParams(transformOptions))
       IN Str(c.apiUrl.s \o "/api/transform/" \o ToStr(fileId)
                \o (IF query # "" THEN "?" \o query ELSE ""))

\* getFileUrl adding a cache-busting counter to each URL it returns
GetFileUrlCacheBusting(c, fileId, transformOptions) ==
  IF ~Truthy(fileId) THEN Null
  ELSE Str(c.apiUrl.s \o "/api/transform/" \o ToStr(fileId)
             \o "?v=" \o ToString(Cardinality(log)))

GetFileUrl(c, fileId, transformOptions) ==
  IF ~Truthy(fileId) THEN Null
  ELSE IF ~Truthy(transformOptions)
    THEN Str(c.apiUrl.s \o "/api/transform/" \o ToStr(fileId))
  ELSE LET query == ParamsToString(TransformParams(transformOptions))
       IN Str(c.apiUrl.s \o "/api/transform/" \o ToStr(fileId)
                \o (IF query # "" THEN "?" \o query ELSE ""))

\* The hook useFileUrl: the client's getFileUrl on the context's client
UseFileUrl(c, fileId, transformOptions) == GetFileUrl(c, fileId, transformOptions)

\* A parameter with a default value: f(options = {})
DefaultArg(v, d) == IF v = Undef THEN d ELSE v

\* The URLSearchParams getFiles builds from its options
GetFilesParams(options) ==
  LET o == DefaultArg(options, Obj(<<>>))
      p1 == AppendIf(<<>>, o, "folderId", "folder_id")
      p2 == AppendIf(p1, o, "mimeType", "mime_type")
      p3 == AppendIf(p2, o, "search", "search")
      p4 == AppendIf(p3, o, "limit", "limit")
  IN AppendIf(p4, o, "offset", "offset")

\* client.getFiles(options): this.request(`/public/files${query ? '?' + query : ''}`)
GetFilesCall(options) ==
  LET query == ParamsToString(GetFilesParams(options))
  IN [endpoint |-> "/public/files" \o (IF query # "" THEN "?" \o query ELSE ""),
      options |-> Obj(<<>>)]

(* ------------------------------------------------------------------------ *)
(* DAMClient endpoint methods used by the hooks                              *)
(* ------------------------------------------------------------------------ *)
\* deleteFile(fileId): the arguments it passes to request
DeleteFileCall(fileId) ==
  [endpoint |-> "/public/files/" \o ToStr(fileId),
   options |-> Obj(<< <<"method", Str("DELETE")>> >>)]

\* The optional fields both uploads append to their FormData
UploadFields(entries, options) ==
  LET withFolder ==
        IF Truthy(Prop(options, "folderId"))
          THEN Append(entries, <<"folder_id", Str(ToStr(Prop(options, "folderId")))>>)
          ELSE entries
  IN IF Truthy(Prop(options, "metadata"))
       THEN Append(withFolder,
                   <<"metadata", Str(JsonStringify(Prop(options, "metadata")))>>)
       ELSE withFolder

\* uploadMultipleFiles(files, options): the arguments it passes to request
UploadMultipleFilesCall(files, options) ==
  [endpoint |-> "/public/multiple",
   options |-> Obj(<< <<"method", Str("POST")>>,
                      <<"body", FormDataOf(UploadFields(
                                  [i \in 1..Len(files) |-> <<"files", files[i]>>],
                                  options))>> >>)]

(* ------------------------------------------------------------------------ *)
(* useFileUpload: the XMLHttpRequest of upload()                             *)
(* ------------------------------------------------------------------------ *)
\* A form that carries folder_id whenever options has the key folderId
UploadFormFolderWhenPresent(file, options) ==
  LET withFolder ==
        IF Prop(options, "folderId") # Undef
          THEN << <<"file", file>>, <<"folder_id", Str(ToStr(Prop(options, "folderId")))>> >>
          ELSE << <<"file", file>> >>
  IN IF Truthy(Prop(options, "metadata"))
       THEN Append(withFolder,
                   <<"metadata", Str(JsonStringify(Prop(options, "metadata")))>>)
       ELSE withFolder

\* The FormData upload() sends
UploadForm(file, options) == UploadFields(<< <<"file", file>> >>, options)

\* The two headers upload() sets on the XMLHttpRequest
XhrHeaders(c) ==
  << <<"X-API-Key-ID", c.keyId>>, <<"X-API-Key-Secret", c.keySecret>> >>

\* The percentage of the bytes still to send
ProgressPercentRemaining(loaded, total) ==
  100 - (200 * loaded + total) \div (2 * total)

\* Math.round((loaded / total) * 100), for total > 0
ProgressPercent(loaded, total) == (200 * loaded + total) \div (2 * total)

\* The load handler settling with a parse failure resolved as undefined
XhrLoadOutcomeSwallowsParseError(r) ==
  IF r.status >= 200 /\ r.status < 300
    THEN IF JsonValid(r.text) /\ ~PropThrows(JsonParse(r.text))
           THEN Return(Prop(JsonParse(r.text), "data"))
           ELSE Return(Undef)
    ELSE IF JsonValid(r.text) /\ ~PropThrows(JsonParse(r.text))
           THEN Throw(ToStr(OrElse(Prop(JsonParse(r.text), "message"),
                                   Str("Upload failed"))))
           ELSE Throw("Upload failed with status " \o ToString(r.status))

\* The load handler: how the promise around the XMLHttpRequest settles
XhrLoadOutcome(r) ==
  IF r.status >= 200 /\ r.status < 300
    THEN IF JsonValid(r.text) /\ ~PropThrows(JsonParse(r.text))
           THEN Return(Prop(JsonParse(r.text), "data"))
           ELSE Throw("Invalid JSON response")
    ELSE IF JsonValid(r.text) /\ ~PropThrows(JsonParse(r.text))
           THEN Throw(ToStr(OrElse(Prop(JsonParse(r.text), "message"),
                                   Str("Upload failed"))))
           ELSE Throw("Upload failed with status " \o ToString(r.status))

\* The error handler of the XMLHttpRequest
XhrErrorOutcome == Throw("Network error during upload")

NullDataMessage == "Cannot read properties of null (reading 'data')"

\* uploadMultiple after the await: `return result.data`
UploadMultipleOutcome(out) ==
  IF out.kind = "throw" THEN out
  ELSE IF PropThrows(out.value) THEN Throw(NullDataMessage)
  ELSE Return(Prop(out.value, "data"))

(* ------------------------------------------------------------------------ *)
(* Inputs                                                                    *)
(* ------------------------------------------------------------------------ *)
ApiUrlChoices == {Undef, Null, Str(""), Str("h"), Str("h/"), Str("h//")}
KeyIdChoices == {Undef, Str(""), Num(0), Str("id1")}
KeySecretChoices == {Undef, Null, Str(""), Str("s1")}

ConfigOf(a, k, s) == MkObj(<< <<"apiUrl", a>>, <<"keyId", k>>, <<"keySecret", s>> >>)

Configs ==
  {Undef, Null} \cup
  { ConfigOf(a, k, s) : a \in ApiUrlChoices, k \in KeyIdChoices, s \in KeySecretChoices }

Endpoints == {"/public/files"}
MethodChoices == {Undef, Str("POST"), Str("PUT")}
HeaderChoices ==
  { Undef,
    Obj(<< <<"X-Trace", Str("1")>> >>),
    Obj(<< <<"X-API-Key-ID", Str("other")>> >>),
    Obj(<< <<"Content-Type", Str("text/plain")>> >>) }
FileBlob == Str("blob")
BodyChoices ==
  { Undef, Null, Str(""), NameJson, FormDataOf(<< <<"file", FileBlob>> >>) }

OptionBags ==
  { MkObj(<< <<"method", m>>, <<"headers", h>>, <<"body", b>> >>) :
      m \in MethodChoices, h \in HeaderChoices, b \in BodyChoices }

JsonTexts ==
  { p[1] : p \in { q \in JsonTable : q[2].t \in {"object", "null"} } } \ ListingTexts

\* The responses a server can give: any body with 200 and 404, No Content with
\* an empty body, a JSON or an HTML error page with 500
Responses ==
  { HttpResponse(st, tx) : st \in {200, 404}, tx \in JsonTexts \cup NonJsonTexts }
  \cup { HttpResponse(204, "") }
  \cup { HttpResponse(500, tx) : tx \in {"<html>Bad Gateway</html>", "{\"message\":\"not found\"}"} }

\* The options useFiles is rendered with: the default, an empty object, one
\* folder, every field, a zero limit, a zero offset
FilesOptionChoices ==
  { Undef,
    Obj(<<>>),
    Obj(<< <<"folderId", Str("a")>> >>),
    Obj(<< <<"folderId", Str("b")>>, <<"mimeType", Str("image/*")>>,
           <<"search", Str("cat")>>, <<"limit", Num(10)>>, <<"offset", Num(20)>> >>),
    Obj(<< <<"limit", Num(0)>> >>),
    Obj(<< <<"folderId", Str("b")>>, <<"offset", Num(0)>> >>),
    Obj(<< <<"offset", Num(0)>>, <<"folderId", Str("b")>> >>) }

\* The listing the server holds for a request path: it filters by folder_id
ServerListing(path) ==
  CASE path = "/public/files?folder_id=a" -> "a"
    [] path \in {"/public/files?folder_id=b",
                 "/public/files?folder_id=b&offset=0",
                 "/public/files?folder_id=b&mime_type=image%2F*&search=cat&limit=10&offset=20"}
         -> "b"
    [] OTHER -> "all"

\* The answers to GET /public/files: the listing, a null body, a JSON error, an
\* HTML error page, no answer
FilesResponses(path) ==
  { HttpResponse(200, ListingText(ServerListing(path))),
    HttpResponse(200, "null"),
    HttpResponse(404, "{\"message\":\"not found\"}"),
    HttpResponse(500, "<html>Bad Gateway</html>"),
    NetworkFailure }

\* The answers to an upload: a file record, a null body, an empty body, an HTML
\* page, an error with `message`, an error with `error` only
UploadResponses ==
  { r \in Responses :
      r.text \in {"{\"data\":{\"id\":\"f1\"}}", "null", "", "<html>Bad Gateway</html>",
                  "{\"message\":\"not found\"}", "{\"error\":\"denied\"}"} }

FileBlob2 == Str("blob2")
UploadOptionChoices ==
  { Obj(<<>>),
    Obj(<< <<"folderId", Str("folder-1")>>, <<"metadata", NameJson>> >>) }

FileIdChoices == {Undef, Null, Str(""), Num(0), Bool(FALSE), Str("abc")}
TransformChoices ==
  { Undef, Null, Obj(<<>>),
    Obj(<< <<"width", Num(300)>>, <<"height", Num(300)>>,
           <<"fit", Str("cover")>>, <<"format", Str("webp")>> >>),
    Obj(<< <<"grayscale", Bool(FALSE)>> >>),
    Obj(<< <<"grayscale", Bool(TRUE)>> >>),
    Obj(<< <<"width", Num(0)>>, <<"quality", Num(80)>>, <<"rotate", Num(90)>> >>),
    Obj(<< <<"fit", Str("scale down")>>, <<"blur", Num(5)>>, <<"format", Str("")>> >>) }

(* ------------------------------------------------------------------------ *)
(* State                                                                     *)
(* ------------------------------------------------------------------------ *)
NoCtor == [phase |-> "none", config |-> Undef, threw |-> FALSE, message |-> ""]

IdleCall ==
  [phase |-> "idle", endpoint |-> "", options |-> Obj(<<>>), url |-> "",
   init |-> <<>>, sent |-> FALSE, response |-> NoResponse, outcome |-> NoOutcome]

NoUrlCall ==
  [phase |-> "none", via |-> "", fileId |-> Undef, transformOptions |-> Undef,
   params |-> <<>>, result |-> Undef]

FoInit == [loading |-> FALSE, error |-> Null, pending |-> EmptyBag,
           last |-> [phase |-> "none", response |-> NoResponse,
                     outcome |-> NoOutcome, error |-> Null]]

UpInit == [uploading |-> FALSE, progress |-> 0, error |-> Null, pending |-> EmptyBag,
           last |-> [phase |-> "none", op |-> "", response |-> NoResponse,
                     outcome |-> NoOutcome]]

\* useFiles: useState([]) / useState(true) / useState(null) / useState(null)
EmptyList == Obj(<<>>)

FlInit == [mounted |-> FALSE, options |-> Undef, files |-> EmptyList,
           pagination |-> Null, loading |-> TRUE, error |-> Null,
           pending |-> EmptyBag, calls |-> 0, sent |-> 0, done |-> 0,
           last |-> [phase |-> "none", outcome |-> NoOutcome]]

\* useFile: useState(null) / useState(true) / useState(null)
FiInit == [mounted |-> FALSE, fileId |-> Undef, file |-> Null, loading |-> TRUE,
           error |-> Null, pending |-> EmptyBag, runs |-> 0, sent |-> 0]

\* useFolder: useState(null) / useState(true) / useState(null)
FrInit == [mounted |-> FALSE, folderId |-> Undef, folder |-> Null, loading |-> TRUE,
           error |-> Null, pending |-> EmptyBag, runs |-> 0, sent |-> 0]

\* useTestConnection: useState(false) / useState(false) / useState(null)
TcInit == [testing |-> FALSE, connected |-> FALSE, error |-> Null,
           pending |-> EmptyBag, answer |-> NoResponse,
           last |-> [phase |-> "none", alone |-> TRUE, outcome |-> NoOutcome]]

\* DAMProvider before its first render
PvInit == [mounted |-> FALSE, config |-> Undef, client |-> NoClient,
           built |-> 0, threw |-> FALSE, seen |-> NoClient]

\* useDebouncedSearch before its first render
DsInit == [mounted |-> FALSE, value |-> "", debouncedValue |-> "", delay |-> 0,
           timers |-> {}, handler |-> 0, held |-> 0]

\* useFolders: useState([]) / useState(true) / useState(null)
FdInit == [mounted |-> FALSE, options |-> Undef, folders |-> EmptyList,
           loading |-> TRUE, error |-> Null, pending |-> EmptyBag,
           answer |-> NoResponse,
           last |-> [phase |-> "none", op |-> "", outcome |-> NoOutcome]]

\* The request an operation puts on the wire
NoWire == [op |-> "", via |-> "", arg |-> Undef, method |-> "", url |-> "",
           headers |-> <<>>, form |-> <<>>]

\* Before any client is constructed
Init ==
  /\ ctor = NoCtor
  /\ client = NoClient
  /\ call = IdleCall
  /\ urlCall = NoUrlCall
  /\ fo = FoInit
  /\ up = UpInit
  /\ fl = FlInit
  /\ fd = FdInit
  /\ wire = NoWire
  /\ log = {}
  /\ fi = FiInit
  /\ tc = TcInit
  /\ pv = PvInit
  /\ ds = DsInit
  /\ fr = FrInit

(* new DAMClient(config) *)
Construct(config) ==
  /\ client = NoClient
  /\ IF ConfigRejected(config)
       THEN /\ ctor' = [phase |-> "done", config |-> config, threw |-> TRUE,
                        message |-> ConfigErrorMessage]
            /\ client' = client
       ELSE /\ ctor' = [phase |-> "done", config |-> config, threw |-> FALSE,
                        message |-> ""]
            /\ client' = NewClient(config)
  /\ UNCHANGED <<call, urlCall, fo, up, fl, fd, wire, log, fi, tc, pv, ds, fr>>

(* client.request(endpoint, options), up to the await of fetch *)
Request(endpoint, options) ==
  /\ client # NoClient
  /\ call.phase = "idle"
  /\ LET init == FetchOptions(client, options)
         refused == FetchRefuses(init)
     IN call' = [phase |-> IF refused THEN "settled" ELSE "inflight",
                 endpoint |-> endpoint, options |-> options,
                 url |-> RequestUrl(client, endpoint), init |-> init,
                 sent |-> ~refused, response |-> NoResponse,
                 outcome |-> IF refused THEN Throw(FetchRefusedMessage) ELSE NoOutcome]
  /\ UNCHANGED <<ctor, client, urlCall, fo, up, fl, fd, wire, log, fi, tc, pv, ds, fr>>

(* fetch settles: a response arrives, or the transport fails *)
Respond(r) ==
  /\ call.phase = "inflight"
  /\ call' = [call EXCEPT !.phase = "settled", !.response = r,
                          !.outcome = RequestOutcome(r)]
  /\ UNCHANGED <<ctor, client, urlCall, fo, up, fl, fd, wire, log, fi, tc, pv, ds, fr>>

(* the caller's await of request() resumes with the outcome *)
Resume ==
  /\ call.phase = "settled"
  /\ call' = IdleCall
  /\ UNCHANGED <<ctor, client, urlCall, fo, up, fl, fd, wire, log, fi, tc, pv, ds, fr>>

Next ==
  \/ \E config \in Configs : Construct(config)
  \/ \E e \in Endpoints, o \in OptionBags : Request(e, o)
  \/ \E r \in Responses \cup {NetworkFailure} : Respond(r)
  \/ Resume

Spec == Init /\ [][Next]_vars

(* ------------------------------------------------------------------------ *)
(* Hooks, on a constructed client                                            *)
(* ------------------------------------------------------------------------ *)
\* Calls of one hook that may be in flight together
MaxDeletes == 2
MaxUploads == 2
\* The size of the uploaded file, in bytes
FileBytes == 3

\* The calls in flight of a hook are a bag: they settle in any order
AddCall(pending, e) == pending (+) SetToBag({e})
RemoveCall(pending, e) == pending (-) SetToBag({e})

\* The configuration the provider of the hooks was given
HookConfig == ConfigOf(Str("h/"), Str("id1"), Str("s1"))

InitHooks ==
  /\ ctor = [phase |-> "done", config |-> HookConfig, threw |-> FALSE, message |-> ""]
  /\ client = NewClient(HookConfig)
  /\ call = IdleCall
  /\ urlCall = NoUrlCall
  /\ fo = FoInit
  /\ up = UpInit
  /\ fl = FlInit
  /\ fd = FdInit
  /\ wire = NoWire
  /\ log = {}
  /\ fi = FiInit
  /\ tc = TcInit
  /\ pv = PvInit
  /\ ds = DsInit
  /\ fr = FrInit

(* a deleteFile whose request would leave the URL it built in the client *)
FoDeleteStartRebasing(fileId) ==
  /\ BagCardinality(fo.pending) < MaxDeletes
  /\ LET rq == DeleteFileCall(fileId)
         init == FetchOptions(client, rq.options)
     IN /\ fo' = [fo EXCEPT !.loading = TRUE, !.error = Null,
                            !.pending = AddCall(@, [fileId |-> fileId,
                                                    url |-> RequestUrl(client, rq.endpoint),
                                                    method |-> SentMethod(init),
                                                    headers |-> SentHeaders(init)])]
        /\ client' = [client EXCEPT !.baseUrl = Str(RequestUrl(client, rq.endpoint))]
  /\ UNCHANGED <<ctor, call, urlCall, up, fl, fd, wire, log, fi, tc, pv, ds, fr>>

(* useFileOperations.deleteFile(fileId), up to the await *)
FoDeleteStart(fileId) ==
  /\ BagCardinality(fo.pending) < MaxDeletes
  /\ LET rq == DeleteFileCall(fileId)
         init == FetchOptions(client, rq.options)
     IN fo' = [fo EXCEPT !.loading = TRUE, !.error = Null,
                         !.pending = AddCall(@, [fileId |-> fileId,
                                                 url |-> RequestUrl(client, rq.endpoint),
                                                 method |-> SentMethod(init),
                                                 headers |-> SentHeaders(init)])]
  /\ UNCHANGED <<ctor, client, call, urlCall, up, fl, fd, wire, log, fi, tc, pv, ds, fr>>

(* the request of one deleteFile call settles; catch and finally run *)
FoDeleteSettle(e, r) ==
  /\ BagIn(e, fo.pending)
  /\ LET out == RequestOutcome(r)
         err == IF out.kind = "throw" THEN Str(out.message) ELSE fo.error
     IN fo' = [loading |-> FALSE, error |-> err,
               pending |-> RemoveCall(fo.pending, e),
               last |-> [phase |-> "settled", response |-> r,
                         outcome |-> IF out.kind = "throw" THEN out ELSE Return(Undef),
                         error |-> err]]
  /\ UNCHANGED <<ctor, client, call, urlCall, up, fl, fd, wire, log, fi, tc, pv, ds, fr>>

NextFileOps ==
  \/ \E f \in {Str("abc"), Str("f1")} : FoDeleteStart(f)
  \/ \E e \in BagToSet(fo.pending), r \in Responses \cup {NetworkFailure} :
       FoDeleteSettle(e, r)

SpecFileOps == InitHooks /\ [][NextFileOps]_vars

\* Each call in flight records whether it has been the hook's only call, with
\* no reset(), since it started; another call or a reset() ends that
Disturbed(pending) ==
  LET S == { [x EXCEPT !.alone = FALSE] : x \in BagToSet(pending) }
  IN [y \in S |-> CopiesIn(y, pending) + CopiesIn([y EXCEPT !.alone = TRUE], pending)]

(* useFileUpload.upload(file, options), up to the await of the promise *)
UpUploadStart(file, options) ==
  /\ BagCardinality(up.pending) < MaxUploads
  /\ up' = [up EXCEPT !.uploading = TRUE, !.progress = 0, !.error = Null,
                      !.pending = AddCall(Disturbed(@), [op |-> "upload",
                                              url |-> client.baseUrl.s \o "/public/single",
                                              method |-> "POST",
                                              headers |-> XhrHeaders(client),
                                              form |-> UploadForm(file, options),
                                              loaded |-> 0,
                                              alone |-> up.pending = EmptyBag])]
  /\ UNCHANGED <<ctor, client, call, urlCall, fo, fl, fd, wire, log, fi, tc, pv, ds, fr>>

(* a progress event of one upload; the bytes sent never decrease *)
UpProgress(e, loaded, lengthComputable) ==
  /\ BagIn(e, up.pending)
  /\ e.op = "upload"
  /\ loaded >= e.loaded
  /\ up' = [up EXCEPT !.progress = IF lengthComputable
                                     THEN ProgressPercent(loaded, FileBytes) ELSE @,
                      !.pending = AddCall(RemoveCall(@, e), [e EXCEPT !.loaded = loaded])]
  /\ UNCHANGED <<ctor, client, call, urlCall, fo, fl, fd, wire, log, fi, tc, pv, ds, fr>>

\* What upload()/uploadMultiple() do once their awaited promise has settled:
\* setProgress(100) and return, or setError and rethrow; then setUploading(false)
UpSettled(e, r, out) ==
  up' = [uploading |-> FALSE,
         progress |-> IF out.kind = "return"
                         \/ (e.op = "uploadMultiple" /\ out.message = NullDataMessage)
                        THEN 100 ELSE up.progress,
         error |-> IF out.kind = "throw" THEN Str(out.message) ELSE up.error,
         pending |-> RemoveCall(up.pending, e),
         last |-> [phase |-> "settled", op |-> e.op, response |-> r, outcome |-> out]]

(* the load event of one upload *)
UpLoad(e, r) ==
  /\ BagIn(e, up.pending)
  /\ e.op = "upload"
  /\ UpSettled(e, r, XhrLoadOutcome(r))
  /\ UNCHANGED <<ctor, client, call, urlCall, fo, fl, fd, wire, log, fi, tc, pv, ds, fr>>

(* the error event of one upload *)
UpError(e) ==
  /\ BagIn(e, up.pending)
  /\ e.op = "upload"
  /\ UpSettled(e, NetworkFailure, XhrErrorOutcome)
  /\ UNCHANGED <<ctor, client, call, urlCall, fo, fl, fd, wire, log, fi, tc, pv, ds, fr>>

(* useFileUpload.uploadMultiple(files, options), up to the await *)
UpMultipleStart(files, options) ==
  /\ BagCardinality(up.pending) < MaxUploads
  /\ LET rq == UploadMultipleFilesCall(files, options)
         init == FetchOptions(client, rq.options)
     IN up' = [up EXCEPT !.uploading = TRUE, !.progress = 0, !.error = Null,
                         !.pending = AddCall(Disturbed(@), [op |-> "uploadMultiple",
                                                 url |-> RequestUrl(client, rq.endpoint),
                                                 method |-> SentMethod(init),
                                                 headers |-> SentHeaders(init),
                                                 form |-> SentBody(init).form,
                                                 loaded |-> 0,
                                                 alone |-> up.pending = EmptyBag])]
  /\ UNCHANGED <<ctor, client, call, urlCall, fo, fl, fd, wire, log, fi, tc, pv, ds, fr>>

(* the request of one uploadMultiple call settles *)
UpMultipleSettle(e, r) ==
  /\ BagIn(e, up.pending)
  /\ e.op = "uploadMultiple"
  /\ UpSettled(e, r, UploadMultipleOutcome(RequestOutcome(r)))
  /\ UNCHANGED <<ctor, client, call, urlCall, fo, fl, fd, wire, log, fi, tc, pv, ds, fr>>

(* a reset() that would abort the uploads in flight *)
UpResetCancelling ==
  /\ up' = [up EXCEPT !.progress = 0, !.error = Null, !.uploading = FALSE,
                      !.pending = EmptyBag]
  /\ UNCHANGED <<ctor, client, call, urlCall, fo, fl, fd, wire, log, fi, tc, pv, ds, fr>>

(* reset() of useFileUpload *)
UpReset ==
  /\ up' = [up EXCEPT !.progress = 0, !.error = Null, !.pending = Disturbed(@)]
  /\ UNCHANGED <<ctor, client, call, urlCall, fo, fl, fd, wire, log, fi, tc, pv, ds, fr>>

NextUpload ==
  \/ \E o \in UploadOptionChoices : UpUploadStart(FileBlob, o)
  \/ \E e \in BagToSet(up.pending), n \in 0..FileBytes, lc \in BOOLEAN :
       UpProgress(e, n, lc)
  \/ \E e \in BagToSet(up.pending), r \in UploadResponses : UpLoad(e, r)
  \/ \E e \in BagToSet(up.pending) : UpError(e)
  \/ \E o \in UploadOptionChoices : UpMultipleStart(<<FileBlob, FileBlob2>>, o)
  \/ \E e \in BagToSet(up.pending), r \in UploadResponses \cup {NetworkFailure} :
       UpMultipleSettle(e, r)
  \/ UpReset

SpecUpload == InitHooks /\ [][NextUpload]_vars

\* reset() beside one call of the hook at a time: a call in flight that is no
\* longer `alone` has seen a reset()
NextReset ==
  \/ \E o \in UploadOptionChoices :
       /\ up.pending = EmptyBag
       /\ UpUploadStart(FileBlob, o)
  \/ \E e \in BagToSet(up.pending), n \in 0..FileBytes, lc \in BOOLEAN :
       UpProgress(e, n, lc)
  \/ \E e \in BagToSet(up.pending), r \in UploadResponses : UpLoad(e, r)
  \/ \E e \in BagToSet(up.pending) : UpError(e)
  \/ \E o \in UploadOptionChoices :
       /\ up.pending = EmptyBag
       /\ UpMultipleStart(<<FileBlob, FileBlob2>>, o)
  \/ \E e \in BagToSet(up.pending), r \in UploadResponses \cup {NetworkFailure} :
       UpMultipleSettle(e, r)
  \/ UpReset

SpecReset == InitHooks /\ [][NextReset]_vars

(* client.getFileUrl / useFileUrl on a constructed client *)
InitUrl ==
  /\ \E cfg \in { c \in Configs : ~ConfigRejected(c) } :
       /\ ctor = [phase |-> "done", config |-> cfg, threw |-> FALSE, message |-> ""]
       /\ client = NewClient(cfg)
  /\ call = IdleCall
  /\ urlCall = NoUrlCall
  /\ fo = FoInit
  /\ up = UpInit
  /\ fl = FlInit
  /\ fd = FdInit
  /\ wire = NoWire
  /\ log = {}
  /\ fi = FiInit
  /\ tc = TcInit
  /\ pv = PvInit
  /\ ds = DsInit
  /\ fr = FrInit

CallGetFileUrl(fileId, transformOptions) ==
  /\ client # NoClient
  /\ urlCall' = [phase |-> "done", via |-> "client", fileId |-> fileId,
                 transformOptions |-> transformOptions,
                 params |-> GetFileUrlParams(fileId, transformOptions),
                 result |-> GetFileUrl(client, fileId, transformOptions)]
  /\ UNCHANGED <<ctor, client, call, fo, up, fl, fd, wire, log, fi, tc, pv, ds, fr>>

RenderUseFileUrl(fileId, transformOptions) ==
  /\ client # NoClient
  /\ urlCall' = [phase |-> "done", via |-> "hook", fileId |-> fileId,
                 transformOptions |-> transformOptions,
                 params |-> GetFileUrlParams(fileId, transformOptions),
                 result |-> UseFileUrl(client, fileId, transformOptions)]
  /\ UNCHANGED <<ctor, client, call, fo, up, fl, fd, wire, log, fi, tc, pv, ds, fr>>

\* URL building runs beside a plain GET request of the same client
NextUrl ==
  \/ \E f \in FileIdChoices, o \in TransformChoices : CallGetFileUrl(f, o)
  \/ \E f \in FileIdChoices, o \in TransformChoices : RenderUseFileUrl(f, o)
  \/ \E e \in Endpoints : Request(e, Obj(<<>>))
  \/ \E r \in Responses \cup {NetworkFailure} : Respond(r)
  \/ Resume

SpecUrl == InitUrl /\ [][NextUrl]_vars

(* ------------------------------------------------------------------------ *)
(* The hook useFiles                                                         *)
(* ------------------------------------------------------------------------ *)
MaxFetches == 2
MaxInvocations == 3

\* JSON.stringify(options), the dependency of fetchFiles
StringifyOptions(options) ==
  LET o == DefaultArg(options, Obj(<<>>))
  IN CASE o = Obj(<<>>) -> "{}"
       [] o = Obj(<< <<"folderId", Str("a")>> >>) -> "{\"folderId\":\"a\"}"
       [] o = Obj(<< <<"limit", Num(0)>> >>) -> "{\"limit\":0}"
       [] o = Obj(<< <<"folderId", Str("b")>>, <<"offset", Num(0)>> >>)
            -> "{\"folderId\":\"b\",\"offset\":0}"
       [] o = Obj(<< <<"offset", Num(0)>>, <<"folderId", Str("b")>> >>)
            -> "{\"offset\":0,\"folderId\":\"b\"}"
       [] OTHER -> "{\"folderId\":\"b\",\"mimeType\":\"image/*\",\"search\":\"cat\",\"limit\":10,\"offset\":20}"

\* The request one fetchFiles call hands to fetch
FlRequest(options) ==
  LET rq == GetFilesCall(options)
      init == FetchOptions(client, rq.options)
  IN [options |-> options, path |-> rq.endpoint,
      url |-> RequestUrl(client, rq.endpoint), method |-> SentMethod(init)]

\* A fetchFiles that would abort the requests still in flight
FlFetchCancellingEarlier(options) ==
  [fl EXCEPT !.mounted = TRUE, !.options = options,
             !.loading = TRUE, !.error = Null,
             !.calls = @ + 1, !.sent = @ + 1,
             !.pending = SetToBag({FlRequest(options)})]

\* A fetchFiles that would share a request already in flight for the same
\* options
FlFetchReusingInFlight(options) ==
  IF BagIn(FlRequest(options), fl.pending)
  THEN [fl EXCEPT !.mounted = TRUE, !.options = options,
                  !.loading = TRUE, !.error = Null, !.calls = @ + 1]
  ELSE [fl EXCEPT !.mounted = TRUE, !.options = options,
                  !.loading = TRUE, !.error = Null,
                  !.calls = @ + 1, !.sent = @ + 1,
                  !.pending = AddCall(@, FlRequest(options))]

\* fetchFiles(), up to the await of client.getFiles(options); calls counts the
\* invocations, sent the requests handed to fetch
FlFetch(options) ==
  [fl EXCEPT !.mounted = TRUE, !.options = options,
             !.loading = TRUE, !.error = Null,
             !.calls = @ + 1, !.sent = @ + 1,
             !.pending = AddCall(@, FlRequest(options))]

(* a useFiles whose effect would depend on the options object itself *)
FlRenderOnNewObject(options) ==
  /\ BagCardinality(fl.pending) < MaxFetches
  /\ fl.calls < MaxInvocations
  /\ fl' = IF ~fl.mounted \/ options # fl.options
             THEN FlFetch(options)
             ELSE [fl EXCEPT !.options = options]
  /\ UNCHANGED <<ctor, client, call, urlCall, fo, up, fd, wire, log, fi, tc, pv, ds, fr>>

(* useFiles(options) renders; the effect runs fetchFiles on mount and whenever
   JSON.stringify(options) has changed *)
FlRender(options) ==
  /\ BagCardinality(fl.pending) < MaxFetches
  /\ fl.calls < MaxInvocations
  /\ fl' = IF ~fl.mounted \/ StringifyOptions(options) # StringifyOptions(fl.options)
             THEN FlFetch(options)
             ELSE [fl EXCEPT !.options = options]
  /\ UNCHANGED <<ctor, client, call, urlCall, fo, up, fd, wire, log, fi, tc, pv, ds, fr>>

(* refetch() *)
FlRefetch ==
  /\ fl.mounted
  /\ BagCardinality(fl.pending) < MaxFetches
  /\ fl.calls < MaxInvocations
  /\ fl' = FlFetch(fl.options)
  /\ UNCHANGED <<ctor, client, call, urlCall, fo, up, fd, wire, log, fi, tc, pv, ds, fr>>

(* the request of one fetchFiles call settles; try, catch and finally run *)
FlSettle(e, r) ==
  /\ BagIn(e, fl.pending)
  /\ LET out == RequestOutcome(r)
         rest == RemoveCall(fl.pending, e)
         failed(message) ==
           [fl EXCEPT !.error = Str(message), !.loading = FALSE, !.pending = rest,
                      !.done = @ + 1,
                      !.last = [phase |-> "settled", outcome |-> Throw(message)]]
     IN fl' = IF out.kind = "throw" THEN failed(out.message)
              ELSE IF PropThrows(out.value) THEN failed(NullDataMessage)
              ELSE [fl EXCEPT !.files = Prop(out.value, "data"),
                              !.pagination = Prop(out.value, "pagination"),
                              !.loading = FALSE, !.pending = rest,
                              !.done = @ + 1,
                              !.last = [phase |-> "settled", outcome |-> Return(Undef)]]
  /\ UNCHANGED <<ctor, client, call, urlCall, fo, up, fd, wire, log, fi, tc, pv, ds, fr>>

NextFiles ==
  \/ \E o \in FilesOptionChoices : FlRender(o)
  \/ FlRefetch
  \/ \E e \in BagToSet(fl.pending) : \E r \in FilesResponses(e.path) : FlSettle(e, r)

SpecFiles == InitHooks /\ [][NextFiles]_vars

(* ------------------------------------------------------------------------ *)
(* DAMProvider and useDAMClient                                              *)
(* ------------------------------------------------------------------------ *)
(* <DAMProvider config={config}> renders: useState(() => new DAMClient(config))
   runs its initializer on the first render only and returns the stored client
   on every later one; built counts the clients constructed *)
PvRender(config) ==
  /\ ~pv.threw
  /\ pv' = IF pv.mounted THEN [pv EXCEPT !.config = config]
            ELSE IF ConfigRejected(config)
              THEN [pv EXCEPT !.config = config, !.threw = TRUE]
            ELSE [pv EXCEPT !.mounted = TRUE, !.config = config,
                            !.client = NewClient(config), !.built = @ + 1]
  /\ UNCHANGED <<ctor, client, call, urlCall, fo, up, fl, fd, wire, log, fi, tc, ds, fr>>

(* useDAMClient() in a component below the provider: the context value *)
PvUseClient ==
  /\ pv.mounted
  /\ pv' = [pv EXCEPT !.seen = pv.client]
  /\ UNCHANGED <<ctor, client, call, urlCall, fo, up, fl, fd, wire, log, fi, tc, ds, fr>>

\* The configurations the provider is rendered with: those of the constructor
\* and one with another secret
ProviderConfigs == Configs \cup {ConfigOf(Str("h"), Str("id1"), Str("s2"))}

NextProvider ==
  \/ \E c \in ProviderConfigs : PvRender(c)
  \/ PvUseClient

SpecProvider == Init /\ [][NextProvider]_vars

(* ------------------------------------------------------------------------ *)
(* The hook useFile                                                          *)
(* ------------------------------------------------------------------------ *)
\* getFile(fileId): the arguments it passes to request
GetFileCall(fileId) ==
  [endpoint |-> "/public/files/" \o ToStr(fileId), options |-> Obj(<<>>)]

\* The ids useFile is rendered with
HookFileIds == {Undef, Str(""), Str("abc"), Str("f1")}

\* The answers to GET /public/files/:id
FileResponses ==
  { HttpResponse(200, "{\"data\":{\"id\":\"f1\"}}"),
    HttpResponse(200, "null"),
    HttpResponse(404, "{\"message\":\"not found\"}"),
    HttpResponse(500, "<html>Bad Gateway</html>"),
    NetworkFailure }

\* A fetchFile that would drop the loaded file when the id is falsy
FiFetchClearingFile(f) ==
  IF ~Truthy(f.fileId)
    THEN [f EXCEPT !.loading = FALSE, !.file = Null, !.runs = @ + 1]
  ELSE LET rq == GetFileCall(f.fileId)
       IN [f EXCEPT !.loading = TRUE, !.error = Null,
                    !.runs = @ + 1, !.sent = @ + 1,
                    !.pending = AddCall(@, [fileId |-> f.fileId,
                                            url |-> RequestUrl(client, rq.endpoint),
                                            method |-> SentMethod(FetchOptions(client, rq.options))])]

\* fetchFile(), up to the await of client.getFile(fileId) or to its early
\* return; runs counts the invocations, sent the requests handed to fetch
FiFetch(f) ==
  IF ~Truthy(f.fileId)
    THEN [f EXCEPT !.loading = FALSE, !.runs = @ + 1]
  ELSE LET rq == GetFileCall(f.fileId)
       IN [f EXCEPT !.loading = TRUE, !.error = Null,
                    !.runs = @ + 1, !.sent = @ + 1,
                    !.pending = AddCall(@, [fileId |-> f.fileId,
                                            url |-> RequestUrl(client, rq.endpoint),
                                            method |-> SentMethod(FetchOptions(client, rq.options))])]

(* useFile(fileId) renders; the effect runs fetchFile on mount and whenever
   fileId is another value *)
FiRender(fileId) ==
  /\ BagCardinality(fi.pending) < MaxFetches
  /\ fi.runs < MaxInvocations
  /\ ~fi.mounted \/ fileId # fi.fileId
  /\ fi' = FiFetch([fi EXCEPT !.mounted = TRUE, !.fileId = fileId])
  /\ UNCHANGED <<ctor, client, call, urlCall, fo, up, fl, fd, wire, log, tc, pv, ds, fr>>

(* refetch() *)
FiRefetch ==
  /\ fi.mounted
  /\ BagCardinality(fi.pending) < MaxFetches
  /\ fi.runs < MaxInvocations
  /\ fi' = FiFetch(fi)
  /\ UNCHANGED <<ctor, client, call, urlCall, fo, up, fl, fd, wire, log, tc, pv, ds, fr>>

(* the request of one fetchFile call settles; try, catch and finally run *)
FiSettle(e, r) ==
  /\ BagIn(e, fi.pending)
  /\ LET out == RequestOutcome(r)
         rest == RemoveCall(fi.pending, e)
         failed(message) ==
           [fi EXCEPT !.error = Str(message), !.loading = FALSE, !.pending = rest]
     IN fi' = IF out.kind = "throw" THEN failed(out.message)
              ELSE IF PropThrows(out.value) THEN failed(NullDataMessage)
              ELSE [fi EXCEPT !.file = Prop(out.value, "data"),
                              !.loading = FALSE, !.pending = rest]
  /\ UNCHANGED <<ctor, client, call, urlCall, fo, up, fl, fd, wire, log, tc, pv, ds, fr>>

NextFile ==
  \/ \E f \in HookFileIds : FiRender(f)
  \/ FiRefetch
  \/ \E e \in BagToSet(fi.pending), r \in FileResponses : FiSettle(e, r)

SpecFile == InitHooks /\ [][NextFile]_vars

(* ------------------------------------------------------------------------ *)
(* The URL builders called again with the same arguments                     *)
(* ------------------------------------------------------------------------ *)
MaxRepeats == 2

\* One more call fn(args) on the client; the calls made so far had the same
\* function and arguments
Repeat(fn, args, result) ==
  /\ Cardinality(log) < MaxRepeats
  /\ \A r \in log : r.fn = fn /\ r.args = args
  /\ log' = log \cup {[fn |-> fn, args |-> args, nth |-> Cardinality(log) + 1,
                        config |-> <<client.apiUrl, client.keyId, client.keySecret>>,
                        result |-> result]}

(* client.getFileUrl(fileId, transformOptions) *)
AgainGetFileUrl(fileId, transformOptions) ==
  /\ Repeat("getFileUrl", <<fileId, transformOptions>>,
            GetFileUrl(client, fileId, transformOptions))
  /\ UNCHANGED <<ctor, client, call, urlCall, fo, up, fl, fd, wire, fi, tc, pv, ds, fr>>

(* the query building of client.getFiles(options), before its request *)
AgainGetFilesQuery(options) ==
  /\ Repeat("getFiles", <<options>>, Str(GetFilesCall(options).endpoint))
  /\ UNCHANGED <<ctor, client, call, urlCall, fo, up, fl, fd, wire, fi, tc, pv, ds, fr>>

\* The builders run beside a plain GET request of the same client
NextPure ==
  \/ \E f \in FileIdChoices, o \in TransformChoices : AgainGetFileUrl(f, o)
  \/ \E o \in FilesOptionChoices : AgainGetFilesQuery(o)
  \/ \E e \in Endpoints : Request(e, Obj(<<>>))
  \/ \E r \in Responses \cup {NetworkFailure} : Respond(r)
  \/ Resume

SpecPure == InitUrl /\ [][NextPure]_vars

(* ------------------------------------------------------------------------ *)
(* The hook useFolders of the hooks library, built on useDAMRequest          *)
(* ------------------------------------------------------------------------ *)
MaxFolderCalls == 2

NullMessageMessage == "Cannot read properties of null (reading 'message')"

\* The request of useDAMRequest after fetch: the body is parsed before
\* response.ok is looked at
LibRequestOutcome(r) ==
  IF r.kind = "neterr" THEN Throw(NetworkErrorMessage)
  ELSE IF ~JsonValid(r.text) THEN Throw(ParseErrorMessage(r.text))
  ELSE LET data == JsonParse(r.text)
       IN IF ResponseOk(r) THEN Return(data)
          ELSE IF PropThrows(data) THEN Throw(NullMessageMessage)
          ELSE Throw(ToStr(OrElse(Prop(data, "message"),
                             OrElse(Prop(data, "error"), Str("Request failed")))))

\* fetchFolders: request(`/folders${query ? '?' + query : ''}`)
FoldersCall(options) ==
  LET o == DefaultArg(options, Obj(<<>>))
      params == IF Prop(o, "parentId") # Undef
                  THEN << <<"parent_id", ToStr(Prop(o, "parentId"))>> >> ELSE <<>>
      query == ParamsToString(params)
  IN [endpoint |-> "/folders" \o (IF query # "" THEN "?" \o query ELSE ""),
      options |-> Obj(<<>>)]

CreateFolderCall(name, folderOptions) ==
  [endpoint |-> "/folders",
   options |-> Obj(<< <<"method", Str("POST")>>,
                      <<"body", Spread(Obj(<< <<"name", name>> >>), folderOptions)>> >>)]

UpdateFolderCall(folderId, updates) ==
  [endpoint |-> "/folders/" \o ToStr(folderId),
   options |-> Obj(<< <<"method", Str("PUT")>>, <<"body", updates>> >>)]

DeleteFolderCall(folderId) ==
  [endpoint |-> "/folders/" \o ToStr(folderId),
   options |-> Obj(<< <<"method", Str("DELETE")>> >>)]

FolderOptionChoices == {Undef, Obj(<< <<"parentId", Str("p1")>> >>)}

\* The answers to a folder request
FolderResponses ==
  { HttpResponse(200, "{\"data\":{\"id\":\"f1\"}}"),
    HttpResponse(204, ""),
    HttpResponse(404, "{\"message\":\"not found\"}"),
    HttpResponse(500, "<html>Bad Gateway</html>"),
    NetworkFailure }

\* One more request of the hook in flight
FdCall(op, rq, chained, result) ==
  [op |-> op, method |-> SentMethod(FetchOptions(client, rq.options)),
   url |-> RequestUrl(client, rq.endpoint), chained |-> chained, result |-> result]

\* fetchFolders(), up to the await of its request; `chained` names the mutation
\* that awaits it and `result` what that mutation will return
FdFetchStarted(f, chained, result) ==
  [f EXCEPT !.loading = TRUE, !.error = Null,
            !.pending = AddCall(@, FdCall("fetch", FoldersCall(f.options), chained, result))]

\* A mutation that swallows the failure of its request
MutationFailedSilently(f, e, message) ==
  [f EXCEPT !.pending = RemoveCall(@, e),
            !.last = [phase |-> "settled", op |-> e.op, outcome |-> Throw(message)]]

\* The catch block of createFolder, updateFolder and deleteFolder
MutationFailed(f, e, message) ==
  [f EXCEPT !.error = Str(message),
            !.pending = RemoveCall(@, e),
            !.last = [phase |-> "settled", op |-> e.op, outcome |-> Throw(message)]]

(* useFolders(options) mounts; the effect runs fetchFolders *)
FdMount(options) ==
  /\ ~fd.mounted
  /\ fd' = FdFetchStarted([fd EXCEPT !.mounted = TRUE, !.options = options], "", Undef)
  /\ UNCHANGED <<ctor, client, call, urlCall, fo, up, fl, wire, log, fi, tc, pv, ds, fr>>

(* refetch() *)
FdRefetch ==
  /\ fd.mounted
  /\ BagCardinality(fd.pending) < MaxFolderCalls
  /\ fd' = FdFetchStarted(fd, "", Undef)
  /\ UNCHANGED <<ctor, client, call, urlCall, fo, up, fl, wire, log, fi, tc, pv, ds, fr>>

(* the request of one fetchFolders settles: try, catch, finally; a mutation that
   awaited it then returns *)
FdFetchSettle(e, r) ==
  /\ BagIn(e, fd.pending)
  /\ e.op = "fetch"
  /\ LET out == LibRequestOutcome(r)
         rest == RemoveCall(fd.pending, e)
         message == IF out.kind = "throw" THEN out.message ELSE NullDataMessage
         op == IF e.chained = "" THEN "fetch" ELSE e.chained
     IN fd' = IF out.kind = "throw" \/ PropThrows(out.value)
                THEN [fd EXCEPT !.error = Str(message), !.loading = FALSE,
                                !.pending = rest, !.answer = r,
                                !.last = [phase |-> "settled", op |-> op,
                                          outcome |-> IF e.chained = ""
                                                        THEN Throw(message)
                                                        ELSE Return(e.result)]]
              ELSE [fd EXCEPT !.folders = Prop(out.value, "data"), !.loading = FALSE,
                              !.pending = rest, !.answer = r,
                              !.last = [phase |-> "settled", op |-> op,
                                        outcome |-> Return(e.result)]]
  /\ UNCHANGED <<ctor, client, call, urlCall, fo, up, fl, wire, log, fi, tc, pv, ds, fr>>

\* A mutation, up to the await of its request: setError(null)
FdMutationStarted(op, rq) ==
  /\ fd.mounted
  /\ BagCardinality(fd.pending) < MaxFolderCalls
  /\ fd' = [fd EXCEPT !.error = Null,
                      !.pending = AddCall(@, FdCall(op, rq, "", Undef))]
  /\ UNCHANGED <<ctor, client, call, urlCall, fo, up, fl, wire, log, fi, tc, pv, ds, fr>>

(* createFolder(name, folderOptions) *)
FdCreateFolder(name, folderOptions) ==
  /\ client # NoClient
  /\ FdMutationStarted("createFolder", CreateFolderCall(name, folderOptions))

(* updateFolder(folderId, updates) *)
FdUpdateFolder(folderId, updates) ==
  /\ client # NoClient
  /\ FdMutationStarted("updateFolder", UpdateFolderCall(folderId, updates))

(* deleteFolder(folderId) *)
FdDeleteFolder(folderId) ==
  /\ client # NoClient
  /\ FdMutationStarted("deleteFolder", DeleteFolderCall(folderId))

(* a mutation that would start fetchFolders() without awaiting it *)
FdMutationSettleNotAwaiting(e, r) ==
  /\ BagIn(e, fd.pending)
  /\ e.op # "fetch"
  /\ LET out == LibRequestOutcome(r)
         result == IF e.op = "deleteFolder" THEN Undef ELSE Prop(out.value, "data")
     IN fd' = IF out.kind = "throw"
                THEN MutationFailed([fd EXCEPT !.answer = r], e, out.message)
              ELSE [FdFetchStarted([fd EXCEPT !.pending = RemoveCall(@, e),
                                              !.answer = r], "", Undef)
                      EXCEPT !.last = [phase |-> "settled", op |-> e.op,
                                       outcome |-> Return(result)]]
  /\ UNCHANGED <<ctor, client, call, urlCall, fo, up, fl, wire, log, fi, tc, pv, ds, fr>>

(* the request of a mutation settles: on success it awaits fetchFolders(), on
   failure it sets the error and rethrows *)
FdMutationSettle(e, r) ==
  /\ BagIn(e, fd.pending)
  /\ e.op # "fetch"
  /\ LET out == LibRequestOutcome(r)
     IN fd' = IF out.kind = "throw"
                THEN MutationFailed([fd EXCEPT !.answer = r], e, out.message)
              ELSE FdFetchStarted([fd EXCEPT !.pending = RemoveCall(@, e),
                                             !.answer = r], e.op,
                                  IF e.op = "deleteFolder" THEN Undef
                                  ELSE Prop(out.value, "data"))
  /\ UNCHANGED <<ctor, client, call, urlCall, fo, up, fl, wire, log, fi, tc, pv, ds, fr>>

NextFolders ==
  \/ \E o \in FolderOptionChoices : FdMount(o)
  \/ FdRefetch
  \/ \E e \in BagToSet(fd.pending), r \in FolderResponses : FdFetchSettle(e, r)
  \/ FdCreateFolder(Str("n"), Obj(<<>>))
  \/ FdUpdateFolder(Str("f1"), NameJson)
  \/ FdDeleteFolder(Str("f1"))
  \/ \E e \in BagToSet(fd.pending), r \in FolderResponses : FdMutationSettle(e, r)

SpecFolders == InitHooks /\ [][NextFolders]_vars

(* ------------------------------------------------------------------------ *)
(* The hook useFolder of the hooks library                                   *)
(* ------------------------------------------------------------------------ *)
\* fetchFolder: request(`/folders/${folderId}`)
FolderCall(folderId) ==
  [endpoint |-> "/folders/" \o ToStr(folderId), options |-> Obj(<<>>)]

\* fetchFolder(), up to the await of its request or to its early return
FrFetch(f) ==
  IF ~Truthy(f.folderId)
    THEN [f EXCEPT !.loading = FALSE, !.runs = @ + 1]
  ELSE LET rq == FolderCall(f.folderId)
       IN [f EXCEPT !.loading = TRUE, !.error = Null,
                    !.runs = @ + 1, !.sent = @ + 1,
                    !.pending = AddCall(@, [folderId |-> f.folderId,
                                            url |-> RequestUrl(client, rq.endpoint),
                                            method |-> SentMethod(FetchOptions(client, rq.options))])]

(* useFolder(folderId) renders; the effect runs fetchFolder on mount and
   whenever folderId is another value *)
FrRender(folderId) ==
  /\ BagCardinality(fr.pending) < MaxFetches
  /\ fr.runs < MaxInvocations
  /\ ~fr.mounted \/ folderId # fr.folderId
  /\ fr' = FrFetch([fr EXCEPT !.mounted = TRUE, !.folderId = folderId])
  /\ UNCHANGED <<ctor, client, call, urlCall, fo, up, fl, fd, wire, log, fi, tc, pv, ds>>

(* refetch() *)
FrRefetch ==
  /\ fr.mounted
  /\ BagCardinality(fr.pending) < MaxFetches
  /\ fr.runs < MaxInvocations
  /\ fr' = FrFetch(fr)
  /\ UNCHANGED <<ctor, client, call, urlCall, fo, up, fl, fd, wire, log, fi, tc, pv, ds>>

(* the request of one fetchFolder call settles; try, catch and finally run *)
FrSettle(e, r) ==
  /\ BagIn(e, fr.pending)
  /\ LET out == LibRequestOutcome(r)
         rest == RemoveCall(fr.pending, e)
         failed(message) ==
           [fr EXCEPT !.error = Str(message), !.loading = FALSE, !.pending = rest]
     IN fr' = IF out.kind = "throw" THEN failed(out.message)
              ELSE IF PropThrows(out.value) THEN failed(NullDataMessage)
              ELSE [fr EXCEPT !.folder = Prop(out.value, "data"),
                              !.loading = FALSE, !.pending = rest]
  /\ UNCHANGED <<ctor, client, call, urlCall, fo, up, fl, fd, wire, log, fi, tc, pv, ds>>

NextFolder ==
  \/ \E f \in HookFileIds : FrRender(f)
  \/ FrRefetch
  \/ \E e \in BagToSet(fr.pending), r \in FileResponses : FrSettle(e, r)

\* useFile or useFolder, each a component of its own
NextEntity ==
  \/ /\ fr = FrInit
     /\ NextFile
  \/ /\ fi = FiInit
     /\ NextFolder

SpecEntity == InitHooks /\ [][NextEntity]_vars

(* ------------------------------------------------------------------------ *)
(* The hook useTestConnection                                                *)
(* ------------------------------------------------------------------------ *)
MaxTests == 2

\* client.testConnection(): the arguments it passes to request
TestConnectionCall == [endpoint |-> "/public/files?limit=1", options |-> Obj(<<>>)]

(* testConnection(), up to the await of client.testConnection(); `alone` tells
   whether no other call of the hook is in flight beside this one *)
TcTestStart ==
  /\ BagCardinality(tc.pending) < MaxTests
  /\ LET rq == TestConnectionCall
     IN tc' = [tc EXCEPT !.testing = TRUE, !.error = Null,
                         !.pending = AddCall(Disturbed(@),
                            [url |-> RequestUrl(client, rq.endpoint),
                             method |-> SentMethod(FetchOptions(client, rq.options)),
                             alone |-> tc.pending = EmptyBag])]
  /\ UNCHANGED <<ctor, client, call, urlCall, fo, up, fl, fd, wire, log, fi, pv, ds, fr>>

(* a testConnection whose catch block would rethrow *)
TcSettleRethrowing(e, r) ==
  /\ BagIn(e, tc.pending)
  /\ LET out == RequestOutcome(r)
         rest == RemoveCall(tc.pending, e)
     IN tc' = IF out.kind = "throw"
                THEN [tc EXCEPT !.error = Str(out.message), !.connected = FALSE,
                                !.testing = FALSE, !.pending = rest, !.answer = r,
                                !.last = [phase |-> "settled", alone |-> e.alone,
                                          outcome |-> Throw(out.message)]]
              ELSE [tc EXCEPT !.connected = TRUE,
                              !.testing = FALSE, !.pending = rest, !.answer = r,
                              !.last = [phase |-> "settled", alone |-> e.alone,
                                        outcome |-> Return(Bool(TRUE))]]
  /\ UNCHANGED <<ctor, client, call, urlCall, fo, up, fl, fd, wire, log, fi, pv, ds, fr>>

(* the request of one testConnection call settles; try, catch and finally run *)
TcSettle(e, r) ==
  /\ BagIn(e, tc.pending)
  /\ LET out == RequestOutcome(r)
         rest == RemoveCall(tc.pending, e)
     IN tc' = IF out.kind = "throw"
                THEN [tc EXCEPT !.error = Str(out.message), !.connected = FALSE,
                                !.testing = FALSE, !.pending = rest, !.answer = r,
                                !.last = [phase |-> "settled", alone |-> e.alone,
                                          outcome |-> Return(Bool(FALSE))]]
              ELSE [tc EXCEPT !.connected = TRUE,
                              !.testing = FALSE, !.pending = rest, !.answer = r,
                              !.last = [phase |-> "settled", alone |-> e.alone,
                                        outcome |-> Return(Bool(TRUE))]]
  /\ UNCHANGED <<ctor, client, call, urlCall, fo, up, fl, fd, wire, log, fi, pv, ds, fr>>

NextTestConnection ==
  \/ TcTestStart
  \/ \E e \in BagToSet(tc.pending), r \in FilesResponses(TestConnectionCall.endpoint) :
       TcSettle(e, r)

SpecTestConnection == InitHooks /\ [][NextTestConnection]_vars

(* ------------------------------------------------------------------------ *)
(* The hook useDebouncedSearch. Time passes in ticks; a timer is the value   *)
(* its callback closed over and the ticks left until it is due; `held` is    *)
(* the time for which value has been what it is                              *)
(* ------------------------------------------------------------------------ *)
MaxDelay == 2

SearchValues == {"", "a", "ab"}
DelayChoices == 0..MaxDelay

\* An effect that would set its timer without a cleanup
DsEffectWithoutCleanup(d) ==
  [d EXCEPT !.timers = @ \cup {[id |-> 1 - d.handler, value |-> d.value, left |-> d.delay]},
            !.handler = 1 - @]

\* The effect of a render: the cleanup of the previous effect clears its
\* timer, then setTimeout(() => setDebouncedValue(value), delay)
DsEffect(d) ==
  [d EXCEPT !.timers = {t \in @ : t.id # d.handler}
                         \cup {[id |-> 1 - d.handler, value |-> d.value, left |-> d.delay]},
            !.handler = 1 - @]

(* useDebouncedSearch(initialValue, delay) mounts *)
DsMount(initialValue, delay) ==
  /\ ~ds.mounted
  /\ ds' = DsEffect([ds EXCEPT !.mounted = TRUE, !.value = initialValue,
                               !.debouncedValue = initialValue, !.delay = delay])
  /\ UNCHANGED <<ctor, client, call, urlCall, fo, up, fl, fd, wire, log, fi, tc, pv, fr>>

(* setValue(v) with another value: the hook renders again and its effect runs *)
DsSetValue(v) ==
  /\ ds.mounted
  /\ v # ds.value
  /\ ds' = DsEffect([ds EXCEPT !.value = v, !.held = 0])
  /\ UNCHANGED <<ctor, client, call, urlCall, fo, up, fl, fd, wire, log, fi, tc, pv, fr>>

(* a render with another delay: the effect runs *)
DsSetDelay(delay) ==
  /\ ds.mounted
  /\ delay # ds.delay
  /\ ds' = DsEffect([ds EXCEPT !.delay = delay])
  /\ UNCHANGED <<ctor, client, call, urlCall, fo, up, fl, fd, wire, log, fi, tc, pv, fr>>

(* one tick passes *)
DsTick ==
  /\ ds.mounted
  /\ ds' = [ds EXCEPT !.timers = {[t EXCEPT !.left = IF @ > 0 THEN @ - 1 ELSE 0] : t \in @},
                      !.held = IF @ < MaxDelay THEN @ + 1 ELSE @]
  /\ UNCHANGED <<ctor, client, call, urlCall, fo, up, fl, fd, wire, log, fi, tc, pv, fr>>

(* a timer that is due runs its callback: setDebouncedValue(value) *)
DsFire(t) ==
  /\ t \in ds.timers
  /\ t.left = 0
  /\ ds' = [ds EXCEPT !.debouncedValue = t.value, !.timers = @ \ {t}]
  /\ UNCHANGED <<ctor, client, call, urlCall, fo, up, fl, fd, wire, log, fi, tc, pv, fr>>

NextDebounce ==
  \/ \E v \in SearchValues, d \in DelayChoices : DsMount(v, d)
  \/ \E v \in SearchValues : DsSetValue(v)
  \/ \E d \in DelayChoices : DsSetDelay(d)
  \/ DsTick
  \/ \E t \in ds.timers : DsFire(t)

SpecDebounce == InitHooks /\ [][NextDebounce]_vars

\* Time passes, and the event loop runs a timer that is due
SpecDebounceFair ==
  /\ SpecDebounce
  /\ WF_vars(DsTick)
  /\ WF_vars(\E t \in ds.timers : DsFire(t))

(* ------------------------------------------------------------------------ *)
(* Every hook, each one a component of its own: the hooks share no state, so *)
(* a run uses one of them                                                    *)
(* ------------------------------------------------------------------------ *)
NextHooks ==
  \/ /\ up = UpInit /\ fl = FlInit /\ fd = FdInit /\ fi = FiInit /\ tc = TcInit
     /\ NextFileOps
  \/ /\ fo = FoInit /\ fl = FlInit /\ fd = FdInit /\ fi = FiInit /\ tc = TcInit
     /\ NextUpload
  \/ /\ fo = FoInit /\ up = UpInit /\ fd = FdInit /\ fi = FiInit /\ tc = TcInit
     /\ NextFiles
  \/ /\ fo = FoInit /\ up = UpInit /\ fl = FlInit /\ fi = FiInit /\ tc = TcInit
     /\ NextFolders
  \/ /\ fo = FoInit /\ up = UpInit /\ fl = FlInit /\ fd = FdInit /\ tc = TcInit
     /\ NextFile
  \/ /\ fo = FoInit /\ up = UpInit /\ fl = FlInit /\ fd = FdInit /\ fi = FiInit
     /\ NextTestConnection

SpecHooks == InitHooks /\ [][NextHooks]_vars

(* ------------------------------------------------------------------------ *)
(* The request of every operation: the client's methods, the hooks built on  *)
(* the client, and the hooks of the hooks library built on useDAMRequest     *)
(* ------------------------------------------------------------------------ *)
\* The FormData uploadFile(file, options) builds
UploadFileForm(file, options) ==
  LET first == << <<"file", file>> >>
      second == IF Truthy(Prop(options, "folderId"))
                  THEN Append(first, <<"folder_id", Str(ToStr(Prop(options, "folderId")))>>)
                  ELSE first
  IN IF Truthy(Prop(options, "metadata"))
       THEN Append(second, <<"metadata", Str(JsonStringify(Prop(options, "metadata")))>>)
       ELSE second

\* uploadFile(file, options): the arguments it passes to request
UploadFileCall(file, options) ==
  [endpoint |-> "/public/single",
   options |-> Obj(<< <<"method", Str("POST")>>,
                      <<"body", FormDataOf(UploadFileForm(file, options))>> >>)]

\* The options of a single upload, with absent, falsy and truthy fields
UploadOptionsWide ==
  UploadOptionChoices \cup
  { Obj(<< <<"folderId", Str("")>> >>),
    Obj(<< <<"folderId", Str("folder-1")>> >>),
    Obj(<< <<"metadata", NameJson>> >>),
    Obj(<< <<"folderId", Null>>, <<"metadata", Null>> >>),
    Obj(<< <<"folderId", Num(0)>>, <<"metadata", NameJson>> >>) }


\* The hooks library: useFiles.fetchFiles, useFile.fetchFile, deleteFile
LibFilesCall(options) ==
  LET query == ParamsToString(GetFilesParams(options))
  IN [endpoint |-> "/files" \o (IF query # "" THEN "?" \o query ELSE ""),
      options |-> Obj(<<>>)]

LibFileCall(fileId) == [endpoint |-> "/files/" \o ToStr(fileId), options |-> Obj(<<>>)]

LibDeleteFileCall(fileId) ==
  [endpoint |-> "/files/" \o ToStr(fileId),
   options |-> Obj(<< <<"method", Str("DELETE")>> >>)]

\* request(endpoint, options) of the client or of useDAMRequest: fetch(url, fetchOptions)
ViaRequest(op, via, arg, rq) ==
  /\ wire' = [op |-> op, via |-> via, arg |-> arg,
              method |-> SentMethod(FetchOptions(client, rq.options)),
              url |-> RequestUrl(client, rq.endpoint),
              headers |-> SentHeaders(FetchOptions(client, rq.options)),
              form |-> SentBody(FetchOptions(client, rq.options)).form]
  /\ UNCHANGED <<ctor, client, call, urlCall, fo, up, fl, fd, log, fi, tc, pv, ds, fr>>

\* xhr.open(method, url) / fetch(url, {method, ...}) of a hook itself
Direct(op, via, arg, method, url, form) ==
  /\ wire' = [op |-> op, via |-> via, arg |-> arg, method |-> method, url |-> url,
              headers |-> XhrHeaders(client), form |-> form]
  /\ UNCHANGED <<ctor, client, call, urlCall, fo, up, fl, fd, log, fi, tc, pv, ds, fr>>

(* the methods of DAMClient *)
ClientUploadFile(file, options) ==
  /\ client # NoClient
  /\ ViaRequest("uploadFile", "client", options, UploadFileCall(file, options))
ClientUploadMultipleFiles(files, options) ==
  /\ client # NoClient
  /\ ViaRequest("uploadMultipleFiles", "client", Undef, UploadMultipleFilesCall(files, options))
ClientGetFiles(options) ==
  /\ client # NoClient
  /\ ViaRequest("getFiles", "client", options, GetFilesCall(options))
ClientGetFile(fileId) ==
  /\ client # NoClient
  /\ ViaRequest("getFile", "client", fileId, GetFileCall(fileId))
ClientDeleteFile(fileId) ==
  /\ client # NoClient
  /\ ViaRequest("deleteFile", "client", fileId, DeleteFileCall(fileId))
ClientTestConnection ==
  /\ client # NoClient
  /\ ViaRequest("testConnection", "client", Undef, TestConnectionCall)

(* the hooks built on the client *)
HookUseFiles(options) ==
  /\ client # NoClient
  /\ ViaRequest("getFiles", "hook", options, GetFilesCall(options))
HookUseFile(fileId) ==
  /\ Truthy(fileId)
  /\ ViaRequest("getFile", "hook", fileId, GetFileCall(fileId))
HookUpload(file, options) ==
  /\ client # NoClient
  /\ Direct("uploadFile", "hook", options, "POST", client.baseUrl.s \o "/public/single",
            UploadForm(file, options))
HookUploadMultiple(files, options) ==
  /\ client # NoClient
  /\ ViaRequest("uploadMultipleFiles", "hook", Undef, UploadMultipleFilesCall(files, options))
HookDeleteFile(fileId) ==
  /\ client # NoClient
  /\ ViaRequest("deleteFile", "hook", fileId, DeleteFileCall(fileId))
HookTestConnection ==
  /\ client # NoClient
  /\ ViaRequest("testConnection", "hook", Undef, TestConnectionCall)

(* the hooks of the hooks library *)
LibUseFiles(options) ==
  /\ client # NoClient
  /\ ViaRequest("getFiles", "library", options, LibFilesCall(options))
LibUseFile(fileId) ==
  /\ Truthy(fileId)
  /\ ViaRequest("getFile", "library", fileId, LibFileCall(fileId))
LibUpload(file, options) ==
  /\ client # NoClient
  /\ Direct("uploadFile", "library", options, "POST", client.baseUrl.s \o "/upload/single",
            UploadForm(file, options))
LibUploadMultiple ==
  /\ client # NoClient
  /\ Direct("uploadMultipleFiles", "library", Undef, "POST", client.baseUrl.s \o "/upload/multiple",
            UploadFields(<< <<"files", FileBlob>>, <<"files", FileBlob2>> >>, Obj(<<>>)))
LibDeleteFile(fileId) ==
  /\ client # NoClient
  /\ ViaRequest("deleteFile", "library", fileId, LibDeleteFileCall(fileId))

NextEndpoints ==
  \/ \E o \in UploadOptionsWide : ClientUploadFile(FileBlob, o)
  \/ \E o \in UploadOptionChoices : ClientUploadMultipleFiles(<<FileBlob, FileBlob2>>, o)
  \/ \E o \in FilesOptionChoices : ClientGetFiles(o)
  \/ \E f \in FileIdChoices : ClientGetFile(f)
  \/ \E f \in FileIdChoices : ClientDeleteFile(f)
  \/ ClientTestConnection
  \/ \E o \in FilesOptionChoices : HookUseFiles(o)
  \/ \E f \in FileIdChoices : HookUseFile(f)
  \/ \E o \in UploadOptionsWide : HookUpload(FileBlob, o)
  \/ \E o \in UploadOptionChoices : HookUploadMultiple(<<FileBlob, FileBlob2>>, o)
  \/ \E f \in FileIdChoices : HookDeleteFile(f)
  \/ HookTestConnection
  \/ \E o \in FilesOptionChoices : LibUseFiles(o)
  \/ \E f \in FileIdChoices : LibUseFile(f)
  \/ \E o \in UploadOptionsWide : LibUpload(FileBlob, o)
  \/ LibUploadMultiple
  \/ \E f \in FileIdChoices : LibDeleteFile(f)

SpecEndpoints == InitUrl /\ [][NextEndpoints]_vars

(* ------------------------------------------------------------------------ *)
(* Properties of the client                                                  *)
(* ------------------------------------------------------------------------ *)
Falsy == {Undef, Null, Str(""), Num(0), Bool(FALSE)}

CallerSupplied(options, name) ==
  LET h == Prop(options, "headers") IN h.t = "object" /\ HasKey(h.f, name)

\* C1: every request sent by DAMClient.request carries X-API-Key-ID and
\* X-API-Key-Secret, each equal to the configured key unless the caller supplied a
\* header of that name.
C1_AuthHeadersOnEveryRequest ==
  call.sent =>
    LET h == SentHeaders(call.init)
    IN /\ HasKey(h, "X-API-Key-ID")
       /\ HasKey(h, "X-API-Key-Secret")
       /\ ~CallerSupplied(call.options, "X-API-Key-ID")
            => Lookup(h, "X-API-Key-ID") = client.keyId
       /\ ~CallerSupplied(call.options, "X-API-Key-Secret")
            => Lookup(h, "X-API-Key-Secret") = client.keySecret

ConfigFieldMissing(cfg, k) ==
  \/ cfg.t # "object"
  \/ ~HasKey(cfg.f, k)
  \/ Lookup(cfg.f, k) \in Falsy

\* C2: construction throws, before any request, exactly when config is absent or
\* one of apiUrl, keyId, keySecret is missing or falsy; otherwise it yields a client.
C2_ConstructionThrowsIffConfigIncomplete ==
  ctor.phase = "done" =>
    LET incomplete == \/ ctor.config \in {Undef, Null}
                      \/ \E k \in {"apiUrl", "keyId", "keySecret"} :
                           ConfigFieldMissing(ctor.config, k)
    IN /\ ctor.threw <=> incomplete
       /\ ctor.threw => client = NoClient /\ call = IdleCall
       /\ ~ctor.threw => client # NoClient

C2_Witness ==
  /\ ctor.phase = "done"
  /\ ctor.threw
  /\ ctor.config = ConfigOf(Str("h"), Str("id1"), Str(""))
  /\ client = NoClient

\* C3: request returns a value exactly when the response status is in [200,300)
\* and the body parses as JSON, the value being the parsed body unmodified; any
\* other settled request fails.
C3_ReturnsIffOkAndJson ==
  call.phase = "settled" =>
    LET r == call.response
        okJson == /\ r.kind = "http"
                  /\ r.status \in 200..299
                  /\ JsonValid(r.text)
    IN /\ call.outcome.kind \in {"return", "throw"}
       /\ call.outcome.kind = "return" <=> okJson
       /\ okJson => call.outcome.value = JsonParse(r.text)
       /\ (r.kind = "http" /\ r.status \notin 200..299) => call.outcome.kind = "throw"

C3_Witness ==
  /\ call.phase = "settled"
  /\ call.response.status = 200
  /\ call.response.text = "{\"data\":{\"id\":\"f1\"}}"
  /\ call.outcome = Return(FileJson)

NonEmptyString(v) == v.t = "string" /\ v.s # ""

\* C4: a non-2xx response whose body parses as JSON fails with the body's `message`
\* when that is non-empty, otherwise with its `error` when that is non-empty.
C4_ErrorMessageFromBody ==
  (/\ call.phase = "settled"
   /\ call.response.kind = "http"
   /\ call.response.status \notin 200..299
   /\ JsonValid(call.response.text)) =>
    LET d == JsonParse(call.response.text)
        m == Prop(d, "message")
        e == Prop(d, "error")
    IN /\ call.outcome.kind = "throw"
       /\ NonEmptyString(m) => call.outcome.message = m.s
       /\ (~NonEmptyString(m) /\ NonEmptyString(e)) => call.outcome.message = e.s

C4_Witness ==
  /\ call.phase = "settled"
  /\ call.response.status = 404
  /\ call.response.text = "{\"message\":\"not found\"}"
  /\ call.outcome = Throw("not found")

\* C5: a non-2xx response whose body does not parse as JSON fails with exactly
\* "HTTP <status>: <statusText>".
C5_ErrorMessageFromStatusLine ==
  (/\ call.phase = "settled"
   /\ call.response.kind = "http"
   /\ call.response.status \notin 200..299
   /\ ~JsonValid(call.response.text)) =>
    call.outcome =
      Throw("HTTP " \o ToString(call.response.status) \o ": " \o call.response.statusText)

C5_Witness ==
  /\ call.phase = "settled"
  /\ call.response.status = 500
  /\ call.response.text = "<html>Bad Gateway</html>"
  /\ call.outcome = Throw("HTTP 500: Internal Server Error")

\* C8: a sent request has Content-Type: application/json when its body is not
\* FormData, and no Content-Type set by the client when it is FormData, whether or
\* not the caller supplied headers.
C8_ContentTypeRule ==
  call.sent =>
    LET h == SentHeaders(call.init)
        body == Prop(call.options, "body")
    IN /\ ~IsFormData(body) => Lookup(h, "Content-Type") = Str("application/json")
       /\ IsFormData(body) =>
            (HasKey(h, "Content-Type") => CallerSupplied(call.options, "Content-Type"))

HasBody(b) == b.t \notin {"undefined", "null"}

\* C9: a FormData body is sent unmodified, any other body is sent as its JSON
\* serialization, and the method sent is options.method when given, else GET.
C9_BodyAndMethodRule ==
  call.sent =>
    LET body == Prop(call.options, "body")
        method == Prop(call.options, "method")
        sent == SentBody(call.init)
    IN /\ IsFormData(body) => (sent.kind = "multipart" /\ sent.form = body.e)
       /\ (HasBody(body) /\ ~IsFormData(body)) =>
            (sent.kind = "text" /\ sent.text = JsonStringify(body))
       /\ SentMethod(call.init) = (IF method = Undef THEN "GET" ELSE method.s)

NetState == <<client, call, fo, up>>

\* C10: getFileUrl returns null for every falsy fileId whatever the options, and
\* no call of it (through the client or the hook) issues a request or touches the
\* client.
C10_NullForAbsentFileIdNoRequest ==
  [][ (urlCall' # urlCall) =>
        /\ UNCHANGED NetState
        /\ urlCall'.fileId \in Falsy => urlCall'.result = Null ]_vars

C10_Witness ==
  /\ urlCall.phase = "done"
  /\ urlCall.fileId = Str("")
  /\ urlCall.transformOptions = Obj(<< <<"grayscale", Bool(TRUE)>> >>)
  /\ urlCall.result = Null
  /\ call.phase = "inflight"

\* The transform fields in the order of their parameters, with each one's name
TransformOrder ==
  << <<"width", "w">>, <<"height", "h">>, <<"fit", "fit">>, <<"format", "format">>,
     <<"quality", "quality">>, <<"blur", "blur">>, <<"grayscale", "grayscale">>,
     <<"rotate", "rotate">> >>

RECURSIVE ExpectedQuery(_, _)
ExpectedQuery(o, i) ==
  IF i > Len(TransformOrder) THEN ""
  ELSE LET v == Prop(o, TransformOrder[i][1])
           this == IF v \in Falsy THEN ""
                   ELSE TransformOrder[i][2] \o "=" \o
                        (IF TransformOrder[i][1] = "grayscale" THEN "true"
                         ELSE FormEncode(ToStr(v)))
           rest == ExpectedQuery(o, i + 1)
       IN IF this = "" THEN rest
          ELSE IF rest = "" THEN this
          ELSE this \o "&" \o rest

\* C11: for a non-empty fileId, getFileUrl returns <apiUrl>/api/transform/<fileId>
\* when no transform options are given, and otherwise that URL followed by "?" and
\* the emitted parameters in the order w, h, fit, format, quality, blur, grayscale,
\* rotate and nothing else; no "?" is appended when no parameter is emitted.
C11_ExactTransformUrl ==
  /\ (urlCall.phase = "done" /\ urlCall.fileId \notin Falsy) =>
       LET base == client.apiUrl.s \o "/api/transform/" \o ToStr(urlCall.fileId)
           q == IF urlCall.transformOptions \in Falsy THEN ""
                ELSE ExpectedQuery(urlCall.transformOptions, 1)
       IN urlCall.result = Str(IF q = "" THEN base ELSE base \o "?" \o q)
  /\ (/\ urlCall.phase = "done"
      /\ urlCall.fileId = Str("abc")
      /\ client.apiUrl = Str("h")
      /\ urlCall.transformOptions =
           Obj(<< <<"width", Num(300)>>, <<"height", Num(300)>>,
                  <<"fit", Str("cover")>>, <<"format", Str("webp")>> >>)) =>
       urlCall.result = Str("h/api/transform/abc?w=300&h=300&fit=cover&format=webp")
  /\ (/\ urlCall.phase = "done"
      /\ urlCall.fileId = Str("abc")
      /\ client.apiUrl = Str("h")
      /\ urlCall.transformOptions \in {Undef, Null, Obj(<<>>)}) =>
       urlCall.result = Str("h/api/transform/abc")

C11_Witness ==
  /\ urlCall.phase = "done"
  /\ urlCall.via = "hook"
  /\ urlCall.fileId = Str("abc")
  /\ urlCall.transformOptions =
       Obj(<< <<"width", Num(300)>>, <<"height", Num(300)>>,
              <<"fit", Str("cover")>>, <<"format", Str("webp")>> >>)
  /\ urlCall.result = Str("h/api/transform/abc?w=300&h=300&fit=cover&format=webp")

KeysOf(params) == { params[i][1] : i \in 1..Len(params) }

\* C12: getFileUrl emits a parameter for a field only when the field is present and
\* truthy; a falsy grayscale emits nothing (never grayscale=false), a truthy one
\* emits exactly grayscale=true; no parameter has an empty or null value.
C12_OnlyTruthyFieldsEmitted ==
  urlCall.phase = "done" =>
    /\ \A i \in 1..Len(TransformOrder) :
         TransformOrder[i][2] \in KeysOf(urlCall.params) =>
           /\ urlCall.transformOptions \notin Falsy
           /\ Prop(urlCall.transformOptions, TransformOrder[i][1]) \notin Falsy
    /\ \A i \in 1..Len(urlCall.params) :
         /\ urlCall.params[i][2] \notin {"", "null", "undefined"}
         /\ urlCall.params[i][1] = "grayscale" => urlCall.params[i][2] = "true"
    /\ urlCall.result # Null =>
         urlCall.result =
           Str(client.apiUrl.s \o "/api/transform/" \o ToStr(urlCall.fileId)
               \o (IF urlCall.params = <<>> THEN ""
                   ELSE "?" \o ParamsToString(urlCall.params)))

C12_Witness ==
  /\ urlCall.phase = "done"
  /\ urlCall.fileId = Str("abc")
  /\ urlCall.transformOptions = Obj(<< <<"grayscale", Bool(FALSE)>> >>)
  /\ urlCall.params = <<>>
  /\ urlCall.result = Str(client.apiUrl.s \o "/api/transform/abc")

(* ------------------------------------------------------------------------ *)
(* Properties of the hooks                                                   *)
(* ------------------------------------------------------------------------ *)
\* C6: deleteFile completes successfully, leaving the hook's error empty, when the
\* server answers the DELETE with a 2xx status and an empty body (204 No Content).
C6_DeleteSucceedsOnEmptyBody ==
  (/\ fo.last.phase = "settled"
   /\ fo.last.response.kind = "http"
   /\ fo.last.response.status \in 200..299
   /\ fo.last.response.text = "") =>
    /\ fo.last.outcome.kind = "return"
    /\ fo.last.error = Null

\* C7: a response with a status in [200,300) whose body is not valid JSON makes the
\* operation fail with an error thrown to the caller, through DAMClient.request
\* (uploadMultiple) and through the progress-tracked upload alike.
C7_InvalidJsonOnSuccessFails ==
  (/\ up.last.phase = "settled"
   /\ up.last.response.kind = "http"
   /\ up.last.response.status \in 200..299
   /\ ~JsonValid(up.last.response.text)) =>
    /\ up.last.outcome.kind = "throw"
    /\ up.last.outcome.message # ""

C7_Witness ==
  /\ up.last.phase = "settled"
  /\ up.last.op = "upload"
  /\ up.last.response.status = 200
  /\ up.last.response.text = "<html>Bad Gateway</html>"
  /\ up.last.outcome = Throw("Invalid JSON response")
  /\ up.error = Str("Invalid JSON response")

\* The ListFilesOptions fields in the order of their parameters, with each one's name
FilesOrder ==
  << <<"folderId", "folder_id">>, <<"mimeType", "mime_type">>, <<"search", "search">>,
     <<"limit", "limit">>, <<"offset", "offset">> >>

RECURSIVE PresentQuery(_, _)
PresentQuery(o, i) ==
  IF i > Len(FilesOrder) THEN ""
  ELSE LET v == Prop(o, FilesOrder[i][1])
           this == IF v = Undef THEN ""
                   ELSE FilesOrder[i][2] \o "=" \o FormEncode(ToStr(v))
           rest == PresentQuery(o, i + 1)
       IN IF this = "" THEN rest
          ELSE IF rest = "" THEN this
          ELSE this \o "&" \o rest

\* C13: getFiles requests /public/files with exactly one query parameter for each
\* option field that is present (folder_id, mime_type, search, limit, offset, in
\* that order), also when the field holds 0, and none for absent fields; with no
\* parameters the path has no "?".
C13_OneParamPerPresentField ==
  \A e \in BagToSet(fl.pending) :
    LET q == PresentQuery(DefaultArg(e.options, Obj(<<>>)), 1)
    IN /\ e.method = "GET"
       /\ e.path = (IF q = "" THEN "/public/files" ELSE "/public/files?" \o q)

C15_OneTrailingSlashStripped ==
  /\ client # NoClient =>
       LET given == Prop(ctor.config, "apiUrl").s
       IN /\ given = "h" => client.apiUrl = Str("h")
          /\ given = "h/" => client.apiUrl = Str("h")
          /\ given = "h//" => client.apiUrl = Str("h/")
          /\ client.apiUrl.s = given \/ client.apiUrl.s \o "/" = given
  /\ call.phase # "idle" => call.url = client.apiUrl.s \o "/api" \o call.endpoint

C15_Witness ==
  /\ Prop(ctor.config, "apiUrl") = Str("h//")
  /\ call.phase = "inflight"
  /\ call.sent
  /\ call.url = "h//api/public/files"

\* The endpoint table: the method and the path of an operation on its argument
TableMethod(op) == IF op \in {"uploadFile", "uploadMultipleFiles"} THEN "POST"
                   ELSE IF op = "deleteFile" THEN "DELETE" ELSE "GET"

TablePath(op, arg) ==
  CASE op = "uploadFile" -> "/public/single"
    [] op = "uploadMultipleFiles" -> "/public/multiple"
    [] op = "getFiles" -> GetFilesCall(arg).endpoint
    [] op = "getFile" -> "/public/files/" \o ToStr(arg)
    [] op = "deleteFile" -> "/public/files/" \o ToStr(arg)
    [] op = "testConnection" -> "/public/files?limit=1"

\* C16: each client operation issues its request with the method and path of the
\* endpoint table (uploadFile POST /public/single, uploadMultipleFiles POST
\* /public/multiple, getFiles GET /public/files, getFile GET /public/files/{id},
\* deleteFile DELETE /public/files/{id}, testConnection GET /public/files?limit=1),
\* and every hook that performs the same operation uses that same method and path.
C16_EndpointTable ==
  wire.op # "" =>
    /\ wire.method = TableMethod(wire.op)
    /\ wire.url = client.apiUrl.s \o "/api" \o TablePath(wire.op, wire.arg)

\* A step of an upload() call that is, before and after the step, the only call of
\* the hook since it started, with no reset()
AloneStep(e) ==
  /\ e.op = "upload"
  /\ e.alone
  /\ \A x \in BagToSet(up'.pending) : x.alone

\* C17 as stated: while an upload() whose byte counts do not decrease is in flight,
\* the progress values never decrease; on success the progress is 100 when the
\* promise resolves.
C17_ProgressNeverDecreases ==
  [][ \A e \in BagToSet(up.pending) :
        e.op = "upload" =>
          /\ up'.progress >= up.progress
          /\ (up'.last # up.last /\ up'.last.outcome.kind = "return")
               => up'.progress = 100 ]_vars

\* C17, amended: the same for an upload() that is the hook's only call, without a
\* reset(), from its start until it settles.
C17_ProgressMonotoneWhenAlone ==
  [][ \A e \in BagToSet(up.pending) :
        AloneStep(e) =>
          /\ up'.progress >= up.progress
          /\ (up'.pending = EmptyBag /\ up'.last.outcome.kind = "return")
               => up'.progress = 100 ]_vars

C17_Witness ==
  /\ up.pending = EmptyBag
  /\ up.last.phase = "settled"
  /\ up.last.op = "upload"
  /\ up.last.outcome.kind = "return"
  /\ up.progress = 100
  /\ ~up.uploading

\* C18: a progress-tracked upload that completes with a non-2xx status fails with a
\* message derived by the rule of DAMClient.request: the body's `message` field,
\* else its `error` field, else "HTTP <status>: <statusText>" when the body is
\* unparseable.
C18_UploadMessageByRequestRule ==
  (/\ up.last.phase = "settled"
   /\ up.last.op = "upload"
   /\ up.last.response.kind = "http"
   /\ up.last.response.status \notin 200..299) =>
    LET r == up.last.response
        d == IF JsonValid(r.text) THEN JsonParse(r.text) ELSE Undef
        m == Prop(d, "message")
        e == Prop(d, "error")
    IN /\ up.last.outcome.kind = "throw"
       /\ NonEmptyString(m) => up.last.outcome.message = m.s
       /\ (~NonEmptyString(m) /\ NonEmptyString(e)) => up.last.outcome.message = e.s
       /\ ~JsonValid(r.text) =>
            up.last.outcome.message =
              "HTTP " \o ToString(r.status) \o ": " \o r.statusText

\* A step in which one call of a hook settles with a failure: h is the hook's
\* state before the step, h2 after it
FailedStep(h, h2) ==
  /\ BagCardinality(h2.pending) < BagCardinality(h.pending)
  /\ h2.last.outcome.kind = "throw"

\* C19 as stated: when an operation of a hook has settled with a failure of its
\* request, the hook's error state holds the failure's message and its in-progress
\* flag is false, also when other calls of the same hook are in flight.
C19_FailureSetsErrorClearsFlag ==
  [][ /\ FailedStep(fo, fo') =>
           fo'.error = Str(fo'.last.outcome.message) /\ ~fo'.loading
      /\ FailedStep(up, up') =>
           up'.error = Str(up'.last.outcome.message) /\ ~up'.uploading
      /\ FailedStep(fl, fl') =>
           fl'.error = Str(fl'.last.outcome.message) /\ ~fl'.loading
      /\ FailedStep(fd, fd') =>
           fd'.error = Str(fd'.last.outcome.message) /\ ~fd'.loading ]_vars

\* C19, amended: the same, except that a failing mutation of useFolders leaves
\* loading true while a fetch of the folder list by the same hook is in flight.
C19_FailureSetsErrorClearsOwnFlag ==
  [][ /\ FailedStep(fo, fo') =>
           fo'.error = Str(fo'.last.outcome.message) /\ ~fo'.loading
      /\ FailedStep(up, up') =>
           up'.error = Str(up'.last.outcome.message) /\ ~up'.uploading
      /\ FailedStep(fl, fl') =>
           fl'.error = Str(fl'.last.outcome.message) /\ ~fl'.loading
      /\ FailedStep(fd, fd') =>
           /\ fd'.error = Str(fd'.last.outcome.message)
           /\ fd'.loading =>
                /\ fd'.last.op \in {"createFolder", "updateFolder", "deleteFolder"}
                /\ \E e \in BagToSet(fd'.pending) : e.op = "fetch" ]_vars

C19_Witness ==
  /\ fd.last.phase = "settled"
  /\ fd.last.op = "createFolder"
  /\ fd.last.outcome = Throw("not found")
  /\ fd.error = Str("not found")
  /\ fd.loading
  /\ \E e \in BagToSet(fd.pending) : e.op = "fetch"

\* C20: a response for previous inputs of useFiles that arrives after the fetch for
\* newer inputs was issued never overwrites the hook's data.
C20_StaleResponseIgnored ==
  [][ \A e \in BagToSet(fl.pending) :
        (/\ fl'.pending = RemoveCall(fl.pending, e)
         /\ StringifyOptions(e.options) # StringifyOptions(fl.options))
          => /\ fl'.files = fl.files
             /\ fl'.pagination = fl.pagination ]_vars

(* ------------------------------------------------------------------------ *)
(* Requests in flight, invocations and requests issued                       *)
(* ------------------------------------------------------------------------ *)

\* C21 as stated: a useFiles call site never has more than one request in
\* flight, whatever dependency changes and refetch() calls happen
C21_AtMostOneInFlight == BagCardinality(fl.pending) <= 1

\* C21: every fetchFiles invocation that has not settled has its one request
\* in flight, so the requests in flight of the call site are as many as its
\* unsettled invocations (more than one when calls overlap)
C21_OneInFlightPerUnsettledCall ==
  /\ fl.done <= fl.calls
  /\ BagCardinality(fl.pending) = fl.calls - fl.done

\* two fetchFiles calls of one call site are in flight together
C21_Witness ==
  /\ BagCardinality(fl.pending) = 2
  /\ fl.calls - fl.done = 2

\* C22: every getFiles invocation hands exactly one request to fetch, also
\* when the same request is already in flight, and a step that is not an
\* invocation (a settlement, failed or not) hands none
C22_OneRequestPerInvocation ==
  [][ /\ fl'.calls \in {fl.calls, fl.calls + 1}
      /\ fl'.calls = fl.calls + 1 =>
           /\ fl'.sent = fl.sent + 1
           /\ fl'.pending = AddCall(fl.pending, FlRequest(fl'.options))
      /\ fl'.calls = fl.calls =>
           /\ fl'.sent = fl.sent
           /\ \A e \in BagToSet(fl'.pending) :
                CopiesIn(e, fl'.pending) <= CopiesIn(e, fl.pending) ]_vars

\* the same request is in flight twice, after an earlier call has failed
C22_Witness ==
  /\ \E e \in BagToSet(fl.pending) : CopiesIn(e, fl.pending) = 2
  /\ fl.sent = 3
  /\ fl.last.outcome.kind = "throw"

(* ------------------------------------------------------------------------ *)
(* The client after construction                                             *)
(* ------------------------------------------------------------------------ *)

\* C23: no step of any operation, started or settled, failed or not, alone or
\* overlapping others, changes the client's apiUrl, keyId, keySecret or
\* baseUrl, and the client has no field besides these four
C23_ClientNeverChanges ==
  [][ /\ client' = client
      /\ DOMAIN client' = {"apiUrl", "keyId", "keySecret", "baseUrl"} ]_vars

\* two deletions overlapped, one has failed, and the client is as constructed
C23_Witness ==
  /\ BagCardinality(fo.pending) = 1
  /\ fo.error # Null
  /\ client = NewClient(HookConfig)

(* ------------------------------------------------------------------------ *)
(* useDAMRequest beside DAMClient.request                                    *)
(* ------------------------------------------------------------------------ *)

\* C24: a request of useDAMRequest that failed on an answer failed with the
\* message DAMClient.request gives for that answer
C24_HelperAgreesWithRequest ==
  (fd.last.phase = "settled" /\ fd.last.outcome.kind = "throw")
    => RequestOutcome(fd.answer) = Throw(fd.last.outcome.message)

(* ------------------------------------------------------------------------ *)
(* The form of the progress-tracked upload                                   *)
(* ------------------------------------------------------------------------ *)
FieldsNamed(form, name) == { i \in 1..Len(form) : form[i][1] = name }

\* C25: the form upload(file, options) of useFileUpload sends is the form
\* DAMClient.uploadFile builds for the same file and options: the file first,
\* folder_id only if options.folderId is there (and always if it is truthy),
\* metadata only if options.metadata is there, as its JSON text; and the
\* request carries both auth headers
C25_UploadFormAsUploadFile ==
  (wire.op = "uploadFile" /\ wire.via = "hook") =>
    LET o == wire.arg
        form == wire.form
    IN /\ form = UploadFileForm(FileBlob, o)
       /\ form[1] = <<"file", FileBlob>>
       /\ Cardinality(FieldsNamed(form, "file")) = 1
       /\ FieldsNamed(form, "folder_id") # {} => Prop(o, "folderId") # Undef
       /\ Truthy(Prop(o, "folderId")) =>
            \E i \in FieldsNamed(form, "folder_id") :
              form[i][2] = Str(ToStr(Prop(o, "folderId")))
       /\ FieldsNamed(form, "metadata") # {} => Prop(o, "metadata") # Undef
       /\ \A i \in FieldsNamed(form, "metadata") :
            form[i][2] = Str(JsonStringify(Prop(o, "metadata")))
       /\ Truthy(Prop(o, "metadata")) => FieldsNamed(form, "metadata") # {}
       /\ \E i, j \in 1..Len(wire.headers) :
            /\ wire.headers[i] = <<"X-API-Key-ID", client.keyId>>
            /\ wire.headers[j] = <<"X-API-Key-Secret", client.keySecret>>

\* an upload of the hook with a folder and metadata, and one whose folderId is
\* the empty string
C25_Witness ==
  /\ wire.op = "uploadFile" /\ wire.via = "hook"
  /\ \/ Len(wire.form) = 3
     \/ wire.arg = Obj(<< <<"folderId", Str("")>> >>)

(* ------------------------------------------------------------------------ *)
(* The effects of useFiles and useFile                                       *)
(* ------------------------------------------------------------------------ *)
\* The options of two renders hold the same fields with the same values
SameContent(a, b) ==
  LET x == DefaultArg(a, Obj(<<>>)).f
      y == DefaultArg(b, Obj(<<>>)).f
  IN {x[i] : i \in 1..Len(x)} = {y[i] : i \in 1..Len(y)}

FolderMutations == {"createFolder", "updateFolder", "deleteFolder"}

\* The request of useDAMRequest succeeded on the answer r
AnswerSucceeded(r) == r.kind = "http" /\ ResponseOk(r) /\ JsonValid(r.text)

\* C27: when the request of createFolder, updateFolder or deleteFolder
\* succeeds, fetchFolders is started for it and the mutation does not resolve
\* in that step; a mutation resolves only in the step in which the fetch it
\* awaits settles; when the request fails no fetch is started, error becomes
\* the failure message and the mutation rejects with it
C27_MutationRefetchesThenResolves ==
  [][ /\ \A e \in BagToSet(fd.pending) :
           (e.op \in FolderMutations
              /\ CopiesIn(e, fd'.pending) < CopiesIn(e, fd.pending)) =>
             IF AnswerSucceeded(fd'.answer)
               THEN /\ \E c \in BagToSet(fd'.pending) :
                         /\ c.op = "fetch" /\ c.chained = e.op
                         /\ fd'.pending = AddCall(RemoveCall(fd.pending, e), c)
                    /\ fd'.last = fd.last
                    /\ fd'.loading
               ELSE /\ fd'.pending = RemoveCall(fd.pending, e)
                    /\ fd'.last.op = e.op
                    /\ fd'.last.outcome.kind = "throw"
                    /\ fd'.error = Str(fd'.last.outcome.message)
      /\ (fd'.last # fd.last /\ fd'.last.op \in FolderMutations
            /\ fd'.last.outcome.kind = "return") =>
           \E c \in BagToSet(fd.pending) :
             /\ c.op = "fetch" /\ c.chained = fd'.last.op
             /\ fd'.pending = RemoveCall(fd.pending, c) ]_vars

\* createFolder has resolved with the created folder after its refetch, whose
\* listing the hook now holds
C27_Witness ==
  /\ fd.last.phase = "settled" /\ fd.last.op = "createFolder"
  /\ fd.last.outcome = Return(Obj(<< <<"id", Str("f1")>> >>))
  /\ fd.pending = EmptyBag
  /\ fd.folders # EmptyList

(* ------------------------------------------------------------------------ *)
(* The client of DAMProvider                                                 *)
(* ------------------------------------------------------------------------ *)

\* C28: the provider has constructed one client, and the client a consumer
\* gets from useDAMClient is the one constructed from the configuration the
\* provider is rendered with
C28_ClientOfCurrentConfig ==
  pv.seen # NoClient =>
    /\ pv.built = 1
    /\ ~ConfigRejected(pv.config)
    /\ pv.seen = NewClient(pv.config)

(* ------------------------------------------------------------------------ *)
(* useTestConnection                                                         *)
(* ------------------------------------------------------------------------ *)
\* A call of the hook settled in this step
TcSettled == BagCardinality(tc'.pending) < BagCardinality(tc.pending)

\* What a settled testConnection() leaves: it has resolved, with true and
\* connected set after a request that succeeded, with false, connected unset
\* and the failure message in error after one that failed; testing is off
TcSettledAsClaimed ==
  TcSettled =>
    /\ tc'.last.phase = "settled"
    /\ tc'.last.outcome.kind = "return"
    /\ ~tc'.testing
    /\ IF RequestOutcome(tc'.answer).kind = "return"
         THEN tc'.last.outcome.value = Bool(TRUE) /\ tc'.connected
         ELSE /\ tc'.last.outcome.value = Bool(FALSE)
              /\ ~tc'.connected
              /\ tc'.error = Str(RequestOutcome(tc'.answer).message)

\* C29 as stated: testConnection() never rejects and settles as described, and
\* testing is true while any call of the hook has not settled
C29_TestingUntilSettled ==
  [][ /\ TcSettledAsClaimed
      /\ tc'.pending # EmptyBag => tc'.testing ]_vars

\* C29: testConnection() never rejects and settles as described, and testing
\* is true while a call is in flight beside which no other call of the hook
\* has been in flight
C29_TestingUntilSettledWhenAlone ==
  [][ /\ TcSettledAsClaimed
      /\ (\E e \in BagToSet(tc'.pending) : e.alone) => tc'.testing ]_vars

\* a call that was alone has resolved false after a request answered with 500
C29_Witness ==
  /\ tc.last.phase = "settled" /\ tc.last.alone
  /\ tc.last.outcome = Return(Bool(FALSE))
  /\ tc.error = Str("HTTP 500: Internal Server Error")
  /\ ~tc.connected /\ ~tc.testing

(* ------------------------------------------------------------------------ *)
(* useDebouncedSearch                                                        *)
(* ------------------------------------------------------------------------ *)
\* After the mount debouncedValue changes only to the value that value is and
\* has been for the whole delay, and at most one timer is pending
DebounceSafe ==
  [][ /\ (ds.mounted /\ ds'.debouncedValue # ds.debouncedValue) =>
           /\ ds'.debouncedValue = ds.value
           /\ ds.held >= ds.delay
      /\ Cardinality(ds'.timers) <= 1 ]_vars

FiFalsyRun == fi'.runs = fi.runs + 1 /\ ~Truthy(fi'.fileId)

\* fetchFolder ran in this step with a falsy folderId
FrFalsyRun == fr'.runs = fr.runs + 1 /\ ~Truthy(fr'.folderId)

\* C31: a fetch of useFile (useFolder) with a falsy id issues no request, sets
\* loading to false and leaves file (folder) and error as they were
C31_FalsyIdFetchesNothing ==
  [][ /\ FiFalsyRun =>
           /\ fi'.sent = fi.sent /\ fi'.pending = fi.pending
           /\ ~fi'.loading
           /\ fi'.file = fi.file /\ fi'.error = fi.error
      /\ FrFalsyRun =>
           /\ fr'.sent = fr.sent /\ fr'.pending = fr.pending
           /\ ~fr'.loading
           /\ fr'.folder = fr.folder /\ fr'.error = fr.error ]_vars

\* the file (folder) loaded for an earlier id is still there after the id
\* became falsy and the fetch for it ran
C31_Witness ==
  \/ /\ ~Truthy(fi.fileId) /\ fi.file = Obj(<< <<"id", Str("f1")>> >>)
     /\ ~fi.loading /\ fi.runs = 2 /\ fi.sent = 1
  \/ /\ ~Truthy(fr.folderId) /\ fr.folder = Obj(<< <<"id", Str("f1")>> >>)
     /\ ~fr.loading /\ fr.runs = 2 /\ fr.sent = 1

(* ------------------------------------------------------------------------ *)
(* reset() of useFileUpload                                                  *)
(* ------------------------------------------------------------------------ *)
\* C32: reset() sets progress to 0 and error to null, leaves uploading as it
\* is and aborts nothing: every call in flight stays in flight with its
\* request, its form and the bytes it has sent, so its events still arrive
C32_ResetClearsAndCancelsNothing ==
  [][ UpReset =>
        /\ up'.progress = 0
        /\ up'.error = Null
        /\ up'.uploading = up.uploading
        /\ up'.last = up.last
        /\ BagCardinality(up'.pending) = BagCardinality(up.pending)
        /\ \A e \in BagToSet(up.pending) :
             CopiesIn([e EXCEPT !.alone = FALSE], up'.pending) >= CopiesIn(e, up.pending) ]_vars

\* after a reset() during an upload, a progress event of that upload has set
\* progress again
C32_Witness ==
  \E e \in BagToSet(up.pending) :
    e.op = "upload" /\ ~e.alone /\ up.progress > 0 /\ up.uploading

====
